---- MODULE Spec2Model ----
(***************************************************************************)
(* Model of the Triage Go SDK (package triage): annotation contexts and    *)
(* their projection onto span attributes, the span processor, the LLM call *)
(* span wrappers, the hierarchy span wrappers and the SDK lifecycle.       *)
(*                                                                         *)
(* The source tree holds two generations of the LLM instrumentation:       *)
(*   - src/triage/llm.go       LogPrompt(ctx, PromptParams), with End and  *)
(*                             SetError, gated by shouldTraceContent;      *)
(*   - src/unnamed/part_001    LogPrompt(ctx, Prompt), with Context, gated *)
(*                             by isTraceContentEnabled.                   *)
(* The first keeps the source's names; the operators of the second carry   *)
(* the suffix 2 (LogPrompt2, LogCompletion2).                              *)
(***************************************************************************)
EXTENDS Integers, Sequences, FiniteSets, TLC

VARIABLES
    ctxs,          \* context.Context values created so far (a linked list each)
    heap,          \* the int cells that *int fields point to
    lastSet,       \* history: per context, the value last written to each field
    spans,         \* spans created by the tracing runtime
    mu,            \* sdk.go mu: 0 when free, else the goroutine holding it
    initialized,   \* sdk.go initialized
    provider,      \* sdk.go provider: 0 is nil, else a pipeline of pipelines
    activeConfig,  \* sdk.go activeConfig: NilConfig or a config
    pipelines,     \* the TracerProviders created by Init
    globalTP,      \* otel's global TracerProvider: 0 is the default no-op one
    pc,            \* per goroutine: where it is in Init or Shutdown
    local,         \* per goroutine: cfg of the Init in progress
    ret,           \* per goroutine: what its last Init or Shutdown returned
    llms,          \* the LLMSpan values handed to callers
    hier,          \* the Workflow, Task, Agent and ToolSpan values handed out
    globalCfg,     \* part_001 globalCfg: NilConfig or a config
    panicked       \* a call panicked

ctxVars == <<ctxs, heap, lastSet>>
lifeVars ==
    <<mu, initialized, provider, activeConfig, pipelines, globalTP, pc, local,
      ret>>
llmVars == <<llms, hier, globalCfg, panicked>>
vars == <<ctxVars, spans, lifeVars, llmVars>>

-----------------------------------------------------------------------------
(* Bounds of the model. *)

MaxCtx == 2       \* contexts derived from context.Background()
MaxPipelines == 2 \* TracerProviders Init may create in one run
MaxSpans == 2     \* spans started in one run
MaxLLM == 1       \* LLMSpans handed out in one run
MaxEvents == 2    \* error events recorded on one span
MaxHier == 3      \* workflow, task, agent and tool spans started in one run

(* Values the callers pass. *)
Str == {"", "a", "b"}
NoTurn == [set |-> FALSE, n |-> 0]
Turn(n) == [set |-> TRUE, n |-> n]
Unset == "<unset>"

-----------------------------------------------------------------------------
(* attribute.KeyValue: attribute.String(k, s) and attribute.Int(k, n). *)

StringKV(k, s) == [key |-> k, type |-> "STRING", s |-> s, n |-> 0, ss |-> <<>>]
IntKV(k, n) == [key |-> k, type |-> "INT64", s |-> "", n |-> n, ss |-> <<>>]
Float64KV(k, f) == [key |-> k, type |-> "FLOAT64", s |-> f, n |-> 0, ss |-> <<>>]
StringSliceKV(k, ss) == [key |-> k, type |-> "STRINGSLICE", s |-> "", n |-> 0, ss |-> ss]

(* constants.go *)
AttrUserID == "triage.user.id"
AttrUserRole == "triage.user.role"
AttrTenantID == "triage.tenant.id"
AttrTenantName == "triage.tenant.name"
AttrSessionID == "triage.session.id"
AttrSessionTurn == "triage.session.turn_number"
AttrSessionHash == "triage.session.history_hash"
AttrInputRaw == "triage.input.raw"
AttrInputSanitized == "triage.input.sanitized"
AttrTemplateID == "triage.template.id"
AttrTemplateVersion == "triage.template.version"
AttrChunkACLs == "triage.chunk_acls"

TriageKeys ==
    {AttrUserID, AttrUserRole, AttrTenantID, AttrTenantName, AttrSessionID,
     AttrSessionTurn, AttrSessionHash, AttrInputRaw, AttrInputSanitized,
     AttrTemplateID, AttrTemplateVersion, AttrChunkACLs}

-----------------------------------------------------------------------------
(* triageContext: eleven strings and one *int (0 is the nil pointer, any   *)
(* other value is the address of a cell of heap).                          *)

StringFields ==
    {"userID", "userRole", "tenantID", "tenantName", "sessionID",
     "sessionHistoryHash", "inputRaw", "inputSanitized", "templateID",
     "templateVersion", "chunkACLs"}

triageContext ==
    [userID |-> "", userRole |-> "", tenantID |-> "", tenantName |-> "",
     sessionID |-> "", sessionTurnNumber |-> 0, sessionHistoryHash |-> "",
     inputRaw |-> "", inputSanitized |-> "", templateID |-> "",
     templateVersion |-> "", chunkACLs |-> ""]

(* The history record of a context on which nothing was ever written. *)
NeverSet ==
    [userID |-> Unset, userRole |-> Unset, tenantID |-> Unset,
     tenantName |-> Unset, sessionID |-> Unset, sessionTurnNumber |-> NoTurn,
     sessionHistoryHash |-> Unset, inputRaw |-> Unset,
     inputSanitized |-> Unset, templateID |-> Unset,
     templateVersion |-> Unset, chunkACLs |-> Unset]

(* A triageContext under construction together with the heap it lives in. *)
Building(tc, h) == [tc |-> tc, heap |-> h]

(* clone, mutated: starts from the zero value instead of copying tc. *)
clone_Zero(tc, h) == Building(triageContext, h)

(* clone: a copy of tc whose turn number, when set, lives in a fresh cell. *)
clone(tc, h) ==
    IF tc.sessionTurnNumber # 0
    THEN Building([tc EXCEPT !.sessionTurnNumber = Len(h) + 1],
                  Append(h, h[tc.sessionTurnNumber]))
    ELSE Building(tc, h)

-----------------------------------------------------------------------------
(* Per-helper options.  An option is a closure over its argument; applying *)
(* it writes one field of the triageContext it is handed.                  *)

UserRole(role) == [opt |-> "UserRole", s |-> role, n |-> 0]
TenantName(name) == [opt |-> "TenantName", s |-> name, n |-> 0]
TurnNumber(n) == [opt |-> "TurnNumber", s |-> "", n |-> n]
HistoryHash(hh) == [opt |-> "HistoryHash", s |-> hh, n |-> 0]
Sanitized(s) == [opt |-> "Sanitized", s |-> s, n |-> 0]
TemplateVersion(v) == [opt |-> "TemplateVersion", s |-> v, n |-> 0]

(* The field an option writes. *)
OptionField(o) ==
    CASE o.opt = "UserRole" -> "userRole"
      [] o.opt = "TenantName" -> "tenantName"
      [] o.opt = "TurnNumber" -> "sessionTurnNumber"
      [] o.opt = "HistoryHash" -> "sessionHistoryHash"
      [] o.opt = "Sanitized" -> "inputSanitized"
      [] o.opt = "TemplateVersion" -> "templateVersion"

(* o(&tc), mutated: TurnNumber treats 0 as no turn number and writes    *)
(* nothing.                                                               *)
ApplyOption_ZeroIsUnset(b, o) ==
    IF o.opt = "TurnNumber"
    THEN IF o.n = 0 THEN b
         ELSE Building([b.tc EXCEPT !.sessionTurnNumber = Len(b.heap) + 1],
                       Append(b.heap, o.n))
    ELSE Building([b.tc EXCEPT ![OptionField(o)] = o.s], b.heap)

(* o(&tc): TurnNumber stores the address of its captured argument. *)
ApplyOption(b, o) ==
    IF o.opt = "TurnNumber"
    THEN Building([b.tc EXCEPT !.sessionTurnNumber = Len(b.heap) + 1],
                  Append(b.heap, o.n))
    ELSE Building([b.tc EXCEPT ![OptionField(o)] = o.s], b.heap)

(* for _, o := range opts { o(&tc) } *)
RECURSIVE ApplyOptions(_, _)
ApplyOptions(b, opts) ==
    IF opts = <<>> THEN b
    ELSE ApplyOptions(ApplyOption(b, Head(opts)), Tail(opts))

(* History of the same loop: the value each option wrote. *)
RECURSIVE NoteOptions(_, _)
NoteOptions(w, opts) ==
    IF opts = <<>> THEN w
    ELSE NoteOptions(
             [w EXCEPT ![OptionField(Head(opts))] =
                 IF Head(opts).opt = "TurnNumber" THEN Turn(Head(opts).n)
                 ELSE Head(opts).s],
             Tail(opts))

-----------------------------------------------------------------------------
(* context.Context: a node holds one key/value pair and its parent.        *)
(* ctxs[1] is context.Background(); parent 0 ends the chain.               *)

Background == 1

CtxNode(parent, key, tc, span, wf) ==
    [parent |-> parent, key |-> key, tc |-> tc, span |-> span, wf |-> wf]

(* ctx.Value(contextKey{}).(triageContext), or the zero value. *)
RECURSIVE getFromContext(_, _)
getFromContext(cs, c) ==
    IF c = 0 THEN triageContext
    ELSE IF cs[c].key = "triageContext" THEN cs[c].tc
    ELSE getFromContext(cs, cs[c].parent)

(* trace.SpanFromContext: the span id stored nearest to c, 0 when none. *)
RECURSIVE SpanFromContext(_, _)
SpanFromContext(cs, c) ==
    IF c = 0 THEN 0
    ELSE IF cs[c].key = "span" THEN cs[c].span
    ELSE SpanFromContext(cs, cs[c].parent)

(* setInContext, mutated: stores tc in the node of ctx itself as well. *)
setInContext_InPlace(cs, c, tc) ==
    Append([cs EXCEPT ![c] = CtxNode(cs[c].parent, "triageContext", tc, 0, "")],
           CtxNode(c, "triageContext", tc, 0, ""))

(* setInContext: context.WithValue(ctx, contextKey{}, tc). *)
setInContext(cs, c, tc) ==
    Append(cs, CtxNode(c, "triageContext", tc, 0, ""))

-----------------------------------------------------------------------------
(* getTriageAttrs: the projection of the triageContext found in ctx.       *)

AppendIf(cond, attrs, kv) == attrs \o (IF cond THEN <<kv>> ELSE <<>>)

(* getTriageAttrs, mutated: the role is emitted whenever the user is. *)
getTriageAttrs_RoleWithUser(cs, h, c) ==
    LET tc == getFromContext(cs, c)
        a1 == AppendIf(tc.userID # "", <<>>, StringKV(AttrUserID, tc.userID))
        a2 == AppendIf(tc.userID # "", a1, StringKV(AttrUserRole, tc.userRole))
        a3 == AppendIf(tc.tenantID # "", a2, StringKV(AttrTenantID, tc.tenantID))
        a4 == AppendIf(tc.tenantName # "", a3, StringKV(AttrTenantName, tc.tenantName))
        a5 == AppendIf(tc.sessionID # "", a4, StringKV(AttrSessionID, tc.sessionID))
        a6 == a5 \o (IF tc.sessionTurnNumber # 0
                     THEN <<IntKV(AttrSessionTurn, h[tc.sessionTurnNumber])>>
                     ELSE <<>>)
        a7 == AppendIf(tc.sessionHistoryHash # "", a6,
                       StringKV(AttrSessionHash, tc.sessionHistoryHash))
        a8 == AppendIf(tc.inputRaw # "", a7, StringKV(AttrInputRaw, tc.inputRaw))
        a9 == AppendIf(tc.inputSanitized # "", a8,
                       StringKV(AttrInputSanitized, tc.inputSanitized))
        a10 == AppendIf(tc.templateID # "", a9, StringKV(AttrTemplateID, tc.templateID))
        a11 == AppendIf(tc.templateVersion # "", a10,
                        StringKV(AttrTemplateVersion, tc.templateVersion))
    IN  AppendIf(tc.chunkACLs # "", a11, StringKV(AttrChunkACLs, tc.chunkACLs))

getTriageAttrs(cs, h, c) ==
    LET tc == getFromContext(cs, c)
        a1 == AppendIf(tc.userID # "", <<>>, StringKV(AttrUserID, tc.userID))
        a2 == AppendIf(tc.userRole # "", a1, StringKV(AttrUserRole, tc.userRole))
        a3 == AppendIf(tc.tenantID # "", a2, StringKV(AttrTenantID, tc.tenantID))
        a4 == AppendIf(tc.tenantName # "", a3, StringKV(AttrTenantName, tc.tenantName))
        a5 == AppendIf(tc.sessionID # "", a4, StringKV(AttrSessionID, tc.sessionID))
        a6 == a5 \o (IF tc.sessionTurnNumber # 0
                     THEN <<IntKV(AttrSessionTurn, h[tc.sessionTurnNumber])>>
                     ELSE <<>>)
        a7 == AppendIf(tc.sessionHistoryHash # "", a6,
                       StringKV(AttrSessionHash, tc.sessionHistoryHash))
        a8 == AppendIf(tc.inputRaw # "", a7, StringKV(AttrInputRaw, tc.inputRaw))
        a9 == AppendIf(tc.inputSanitized # "", a8,
                       StringKV(AttrInputSanitized, tc.inputSanitized))
        a10 == AppendIf(tc.templateID # "", a9, StringKV(AttrTemplateID, tc.templateID))
        a11 == AppendIf(tc.templateVersion # "", a10,
                        StringKV(AttrTemplateVersion, tc.templateVersion))
    IN  AppendIf(tc.chunkACLs # "", a11, StringKV(AttrChunkACLs, tc.chunkACLs))

-----------------------------------------------------------------------------
(* Spans of the tracing runtime.  A span handed out by a live SDK tracer   *)
(* provider records; the no-op tracer (no provider registered, or the      *)
(* provider shut down) hands out spans that record nothing.  A recording   *)
(* span stops recording when it ends; End on an ended span does nothing.   *)

NoStatus == [code |-> "Unset", description |-> ""]
NoAttrs == [k \in {} |-> StringKV("", "")]

(* A span as tracer.Start creates it.  startCtx is the context Start was *)
(* given and atStart the attributes the span has when Start returns.     *)
NewSpan(name, parent, recording, pipeline, startCtx) ==
    [name |-> name, parent |-> parent, recording |-> recording,
     pipeline |-> pipeline, startCtx |-> startCtx, ended |-> FALSE,
     attrs |-> NoAttrs, atStart |-> NoAttrs, status |-> NoStatus, events |-> 0,
     exported |-> 0]

(* span.IsRecording(); the span of a context that carries none is no-op. *)
IsRecording(sp, sid) == sid # 0 /\ sp[sid].recording /\ ~sp[sid].ended

PutAttr(attrs, kv) ==
    [k \in DOMAIN attrs \cup {kv.key} |-> IF k = kv.key THEN kv ELSE attrs[k]]

RECURSIVE PutAttrs(_, _)
PutAttrs(attrs, kvs) ==
    IF kvs = <<>> THEN attrs ELSE PutAttrs(PutAttr(attrs, Head(kvs)), Tail(kvs))

(* span.SetAttributes(kvs...): later values replace earlier ones per key. *)
SetAttributes(sp, sid, kvs) ==
    IF IsRecording(sp, sid)
    THEN [sp EXCEPT ![sid].attrs = PutAttrs(@, kvs)]
    ELSE sp

(* span.SetStatus(code, description) *)
SetStatus(sp, sid, code, description) ==
    IF IsRecording(sp, sid)
    THEN [sp EXCEPT ![sid].status = [code |-> code, description |-> description]]
    ELSE sp

(* span.RecordError(err): an exception event, nothing for a nil error. *)
RecordError(sp, sid, err) ==
    IF IsRecording(sp, sid) /\ err # "nil"
    THEN [sp EXCEPT ![sid].events = @ + 1]
    ELSE sp

(* A TracerProvider hands out real tracers until it is shut down; the    *)
(* global default (0) and a provider that was shut down hand out no-op   *)
(* tracers.                                                               *)
Live(ps, tp) == tp # 0 /\ ps[tp].state = "active"

(* span.End(): the first call ends the span and hands it to the span     *)
(* processors its provider still has; later calls do nothing.            *)
EndSpan(sp, ps, sid) ==
    IF IsRecording(sp, sid)
    THEN [sp EXCEPT ![sid].ended = TRUE,
                    ![sid].exported =
                        IF Live(ps, sp[sid].pipeline) THEN @ + 1 ELSE @]
    ELSE sp

-----------------------------------------------------------------------------
(* json.Marshal of the []map[string]any handed to WithChunkACLs.  A slice  *)
(* is nil or a sequence of maps; each map here has the one key chunk_id,   *)
(* whose value is a string or a value encoding/json cannot encode ("chan").*)

NilSlice == [nil |-> TRUE, maps |-> <<>>]
Slice(maps) == [nil |-> FALSE, maps |-> maps]
Unencodable == "chan"

RECURSIVE marshalMaps(_)
marshalMaps(maps) ==
    IF maps = <<>> THEN ""
    ELSE "{\"chunk_id\":\"" \o Head(maps) \o "\"}"
         \o (IF Tail(maps) = <<>> THEN "" ELSE ",")
         \o marshalMaps(Tail(maps))

jsonMarshal(acls) ==
    IF acls.nil THEN [err |-> FALSE, data |-> "null"]
    ELSE IF \E i \in DOMAIN acls.maps : acls.maps[i] = Unencodable
    THEN [err |-> TRUE, data |-> ""]
    ELSE [err |-> FALSE, data |-> "[" \o marshalMaps(acls.maps) \o "]"]

-----------------------------------------------------------------------------
(* The six annotation helpers.  Each derives a context from ctx c: it      *)
(* clones the triageContext found in c, writes its own fields, mirrors     *)
(* them on the span of c when that span is recording, and returns a new    *)
(* context node whose parent is c.                                          *)

Derived(cs) == Cardinality({i \in DOMAIN cs : cs[i].key = "triageContext"})

WithUser(c, userID, opts) ==
    /\ Derived(ctxs) < MaxCtx
    /\ UNCHANGED <<lifeVars, llmVars>>
    /\ LET b0 == clone(getFromContext(ctxs, c), heap)
           b1 == ApplyOptions(Building([b0.tc EXCEPT !.userID = userID], b0.heap), opts)
           tc == b1.tc
           span == SpanFromContext(ctxs, c)
           s1 == SetAttributes(spans, span, <<StringKV(AttrUserID, tc.userID)>>)
       IN  /\ heap' = b1.heap
           /\ spans' = IF tc.userRole # ""
                       THEN SetAttributes(s1, span, <<StringKV(AttrUserRole, tc.userRole)>>)
                       ELSE s1
           /\ ctxs' = setInContext(ctxs, c, tc)
           /\ lastSet' = Append(lastSet,
                                NoteOptions([lastSet[c] EXCEPT !.userID = userID], opts))

WithTenant(c, tenantID, opts) ==
    /\ Derived(ctxs) < MaxCtx
    /\ UNCHANGED <<lifeVars, llmVars>>
    /\ LET b0 == clone(getFromContext(ctxs, c), heap)
           b1 == ApplyOptions(Building([b0.tc EXCEPT !.tenantID = tenantID], b0.heap), opts)
           tc == b1.tc
           span == SpanFromContext(ctxs, c)
           s1 == SetAttributes(spans, span, <<StringKV(AttrTenantID, tc.tenantID)>>)
       IN  /\ heap' = b1.heap
           /\ spans' = IF tc.tenantName # ""
                       THEN SetAttributes(s1, span, <<StringKV(AttrTenantName, tc.tenantName)>>)
                       ELSE s1
           /\ ctxs' = setInContext(ctxs, c, tc)
           /\ lastSet' = Append(lastSet,
                                NoteOptions([lastSet[c] EXCEPT !.tenantID = tenantID], opts))

WithSession(c, sessionID, opts) ==
    /\ Derived(ctxs) < MaxCtx
    /\ UNCHANGED <<lifeVars, llmVars>>
    /\ LET b0 == clone(getFromContext(ctxs, c), heap)
           b1 == ApplyOptions(Building([b0.tc EXCEPT !.sessionID = sessionID], b0.heap), opts)
           tc == b1.tc
           span == SpanFromContext(ctxs, c)
           s1 == SetAttributes(spans, span, <<StringKV(AttrSessionID, tc.sessionID)>>)
           s2 == IF tc.sessionTurnNumber # 0
                 THEN SetAttributes(s1, span,
                          <<IntKV(AttrSessionTurn, b1.heap[tc.sessionTurnNumber])>>)
                 ELSE s1
       IN  /\ heap' = b1.heap
           /\ spans' = IF tc.sessionHistoryHash # ""
                       THEN SetAttributes(s2, span,
                                <<StringKV(AttrSessionHash, tc.sessionHistoryHash)>>)
                       ELSE s2
           /\ ctxs' = setInContext(ctxs, c, tc)
           /\ lastSet' = Append(lastSet,
                                NoteOptions([lastSet[c] EXCEPT !.sessionID = sessionID], opts))

WithInput(c, raw, opts) ==
    /\ Derived(ctxs) < MaxCtx
    /\ UNCHANGED <<lifeVars, llmVars>>
    /\ LET b0 == clone(getFromContext(ctxs, c), heap)
           b1 == ApplyOptions(Building([b0.tc EXCEPT !.inputRaw = raw], b0.heap), opts)
           tc == b1.tc
           span == SpanFromContext(ctxs, c)
           s1 == SetAttributes(spans, span, <<StringKV(AttrInputRaw, tc.inputRaw)>>)
       IN  /\ heap' = b1.heap
           /\ spans' = IF tc.inputSanitized # ""
                       THEN SetAttributes(s1, span,
                                <<StringKV(AttrInputSanitized, tc.inputSanitized)>>)
                       ELSE s1
           /\ ctxs' = setInContext(ctxs, c, tc)
           /\ lastSet' = Append(lastSet,
                                NoteOptions([lastSet[c] EXCEPT !.inputRaw = raw], opts))

WithTemplate(c, templateID, opts) ==
    /\ Derived(ctxs) < MaxCtx
    /\ UNCHANGED <<lifeVars, llmVars>>
    /\ LET b0 == clone(getFromContext(ctxs, c), heap)
           b1 == ApplyOptions(Building([b0.tc EXCEPT !.templateID = templateID], b0.heap), opts)
           tc == b1.tc
           span == SpanFromContext(ctxs, c)
           s1 == SetAttributes(spans, span, <<StringKV(AttrTemplateID, tc.templateID)>>)
       IN  /\ heap' = b1.heap
           /\ spans' = IF tc.templateVersion # ""
                       THEN SetAttributes(s1, span,
                                <<StringKV(AttrTemplateVersion, tc.templateVersion)>>)
                       ELSE s1
           /\ ctxs' = setInContext(ctxs, c, tc)
           /\ lastSet' = Append(lastSet,
                                NoteOptions([lastSet[c] EXCEPT !.templateID = templateID], opts))

WithChunkACLs(c, acls) ==
    /\ Derived(ctxs) < MaxCtx
    /\ UNCHANGED <<lifeVars, llmVars>>
    /\ LET b0 == clone(getFromContext(ctxs, c), heap)
           m == jsonMarshal(acls)
           tc == [b0.tc EXCEPT !.chunkACLs = m.data]
           span == SpanFromContext(ctxs, c)
       IN  /\ heap' = b0.heap
           /\ IF m.err
              THEN /\ ctxs' = setInContext(ctxs, c, b0.tc)
                   /\ spans' = spans
                   /\ lastSet' = Append(lastSet, lastSet[c])
              ELSE /\ ctxs' = setInContext(ctxs, c, tc)
                   /\ spans' = SetAttributes(spans, span, <<StringKV(AttrChunkACLs, tc.chunkACLs)>>)
                   /\ lastSet' = Append(lastSet, [lastSet[c] EXCEPT !.chunkACLs = m.data])

-----------------------------------------------------------------------------
(* config and its resolution (part_000): defaults, then the environment,   *)
(* then the explicit options.                                              *)

NilConfig == [isNil |-> TRUE]
NilErr == ""

EnvAPIKey == "TRIAGE_API_KEY"
EnvEndpoint == "TRIAGE_ENDPOINT"
EnvAppName == "TRIAGE_APP_NAME"
EnvEnvironment == "TRIAGE_ENVIRONMENT"
EnvEnabled == "TRIAGE_ENABLED"
EnvTraceContent == "TRIAGE_TRACE_CONTENT"
DefaultEndpoint == "https://api.triageai.dev"

WithAPIKey(key) == [opt |-> "WithAPIKey", s |-> key, b |-> FALSE]
WithEndpoint(ep) == [opt |-> "WithEndpoint", s |-> ep, b |-> FALSE]
WithAppName(name) == [opt |-> "WithAppName", s |-> name, b |-> FALSE]
WithEnvironment(e) == [opt |-> "WithEnvironment", s |-> e, b |-> FALSE]
WithEnabled(b) == [opt |-> "WithEnabled", s |-> "", b |-> b]
WithTraceContent(b) == [opt |-> "WithTraceContent", s |-> "", b |-> b]

(* opt(cfg) *)
ApplyConfigOption(cfg, o) ==
    CASE o.opt = "WithAPIKey" -> [cfg EXCEPT !.apiKey = o.s]
      [] o.opt = "WithEndpoint" -> [cfg EXCEPT !.endpoint = o.s]
      [] o.opt = "WithAppName" -> [cfg EXCEPT !.appName = o.s]
      [] o.opt = "WithEnvironment" -> [cfg EXCEPT !.environment = o.s]
      [] o.opt = "WithEnabled" -> [cfg EXCEPT !.enabled = o.b]
      [] o.opt = "WithTraceContent" -> [cfg EXCEPT !.traceContent = o.b]

RECURSIVE ApplyConfigOptions(_, _)
ApplyConfigOptions(cfg, opts) ==
    IF opts = <<>> THEN cfg
    ELSE ApplyConfigOptions(ApplyConfigOption(cfg, Head(opts)), Tail(opts))

(* strings.ToLower, over the ASCII letters. *)
LowerChar(ch) ==
    CASE ch = "A" -> "a"   [] ch = "B" -> "b"   [] ch = "C" -> "c"
      [] ch = "D" -> "d"   [] ch = "E" -> "e"   [] ch = "F" -> "f"
      [] ch = "G" -> "g"   [] ch = "H" -> "h"   [] ch = "I" -> "i"
      [] ch = "J" -> "j"   [] ch = "K" -> "k"   [] ch = "L" -> "l"
      [] ch = "M" -> "m"   [] ch = "N" -> "n"   [] ch = "O" -> "o"
      [] ch = "P" -> "p"   [] ch = "Q" -> "q"   [] ch = "R" -> "r"
      [] ch = "S" -> "s"   [] ch = "T" -> "t"   [] ch = "U" -> "u"
      [] ch = "V" -> "v"   [] ch = "W" -> "w"   [] ch = "X" -> "x"
      [] ch = "Y" -> "y"   [] ch = "Z" -> "z"   [] OTHER -> ch

RECURSIVE ToLower(_)
ToLower(v) == IF v = "" THEN "" ELSE LowerChar(Head(v)) \o ToLower(Tail(v))

(* envBool: (value, ok). *)
envBool(e, key) ==
    LET v == e[key]
    IN  IF v = "" THEN [value |-> FALSE, ok |-> FALSE]
        ELSE IF ToLower(v) \in {"true", "1", "yes"}
        THEN [value |-> TRUE, ok |-> TRUE]
        ELSE [value |-> FALSE, ok |-> TRUE]

(* filepath.Base with "/" as the separator: the trailing separators are  *)
(* dropped, then everything up to the last separator.                    *)
LastChar(p) == SubSeq(p, Len(p), Len(p))
ButLast(p) == SubSeq(p, 1, Len(p) - 1)

RECURSIVE TrimSeparators(_)
TrimSeparators(p) ==
    IF p # "" /\ LastChar(p) = "/" THEN TrimSeparators(ButLast(p)) ELSE p

RECURSIVE LastElement(_)
LastElement(p) ==
    IF p = "" \/ LastChar(p) = "/" THEN ""
    ELSE LastElement(ButLast(p)) \o LastChar(p)

Base(path) ==
    LET last == LastElement(TrimSeparators(path))
    IN  IF path = "" THEN "." ELSE IF last = "" THEN "/" ELSE last

(* defaultAppName: the basename of os.Args[0], or "unknown". *)
defaultAppName(e) == IF e.args0 # "" THEN Base(e.args0) ELSE "unknown"

(* resolveConfig, mutated: the check of the API key is missing. *)
resolveConfig_NoValidation(e, opts) ==
    [cfg |-> ApplyConfigOptions(
                 [apiKey |-> e[EnvAPIKey], endpoint |-> DefaultEndpoint,
                  appName |-> defaultAppName(e), environment |-> "development",
                  enabled |-> TRUE, traceContent |-> TRUE], opts),
     err |-> NilErr]

(* resolveConfig, mutated: the environment is read after the options   *)
(* are applied, so a variable that is set beats the option.              *)
resolveConfig_EnvLast(e, opts) ==
    LET d == ApplyConfigOptions(
                 [apiKey |-> "", endpoint |-> DefaultEndpoint,
                  appName |-> defaultAppName(e), environment |-> "development",
                  enabled |-> TRUE, traceContent |-> TRUE], opts)
        c1 == IF e[EnvAPIKey] # "" THEN [d EXCEPT !.apiKey = e[EnvAPIKey]] ELSE d
        c2 == IF e[EnvEndpoint] # "" THEN [c1 EXCEPT !.endpoint = e[EnvEndpoint]] ELSE c1
        c3 == IF e[EnvAppName] # "" THEN [c2 EXCEPT !.appName = e[EnvAppName]] ELSE c2
        c4 == IF e[EnvEnvironment] # ""
              THEN [c3 EXCEPT !.environment = e[EnvEnvironment]] ELSE c3
        c5 == IF envBool(e, EnvEnabled).ok
              THEN [c4 EXCEPT !.enabled = envBool(e, EnvEnabled).value] ELSE c4
        cfg == IF envBool(e, EnvTraceContent).ok
               THEN [c5 EXCEPT !.traceContent = envBool(e, EnvTraceContent).value]
               ELSE c5
    IN  IF cfg.apiKey = ""
        THEN [cfg |-> NilConfig, err |-> "triage: API key is required"]
        ELSE [cfg |-> cfg, err |-> NilErr]

(* resolveConfig: (cfg, err); cfg is nil when err is not. *)
resolveConfig(e, opts) ==
    LET d == [apiKey |-> "", endpoint |-> DefaultEndpoint,
              appName |-> defaultAppName(e), environment |-> "development",
              enabled |-> TRUE, traceContent |-> TRUE]
        c1 == IF e[EnvAPIKey] # "" THEN [d EXCEPT !.apiKey = e[EnvAPIKey]] ELSE d
        c2 == IF e[EnvEndpoint] # "" THEN [c1 EXCEPT !.endpoint = e[EnvEndpoint]] ELSE c1
        c3 == IF e[EnvAppName] # "" THEN [c2 EXCEPT !.appName = e[EnvAppName]] ELSE c2
        c4 == IF e[EnvEnvironment] # ""
              THEN [c3 EXCEPT !.environment = e[EnvEnvironment]] ELSE c3
        c5 == IF envBool(e, EnvEnabled).ok
              THEN [c4 EXCEPT !.enabled = envBool(e, EnvEnabled).value] ELSE c4
        c6 == IF envBool(e, EnvTraceContent).ok
              THEN [c5 EXCEPT !.traceContent = envBool(e, EnvTraceContent).value]
              ELSE c5
        cfg == ApplyConfigOptions(c6, opts)
    IN  IF cfg.apiKey = ""
        THEN [cfg |-> NilConfig, err |-> "triage: API key is required"]
        ELSE [cfg |-> cfg, err |-> NilErr]

-----------------------------------------------------------------------------
(* SDK lifecycle (sdk.go).  Init and Shutdown run under mu from Lock to    *)
(* the deferred Unlock; a goroutine's steps are the points at which other  *)
(* goroutines may run.                                                     *)

Goroutines == {1, 2}

(* mu.Lock() returns only when no goroutine holds mu. *)
TryLock_Ignored(m) == TRUE
TryLock(m) == m = 0

NotCalled == "<not called>"

(* What a goroutine got back.  From Init: the shutdown func (inert, or   *)
(* the closure that calls Shutdown) and the error; path is the return    *)
(* statement taken and created the pipeline built.  From Shutdown: its   *)
(* error when called directly, the logged error when called through the  *)
(* closure; spath is the return statement taken.                         *)
Returned(path, handle, err, created) ==
    [path |-> path, handle |-> handle, err |-> err, created |-> created,
     called |-> FALSE, spath |-> NotCalled, shutdownErr |-> NotCalled,
     logged |-> NotCalled]
NothingReturned == Returned(NotCalled, "none", NotCalled, 0)

(* The locals of the call a goroutine is in. *)
Locals(cfg, closure) == [cfg |-> cfg, closure |-> closure]
NoLocals == Locals(NilConfig, FALSE)

(* The path Init takes once it holds mu.  infra is the outcome of the     *)
(* exporter and resource constructors.                                    *)
InitPath_NoGuard(init, rc, infra) ==
    IF rc.err # NilErr THEN "config-error"
    ELSE IF ~rc.cfg.enabled THEN "disabled"
    ELSE IF infra = "exporter" THEN "exporter-error"
    ELSE IF infra = "resource" THEN "resource-error"
    ELSE "install"

(* Init, mutated: the enabled flag of the configuration is not read. *)
InitPath_IgnoresEnabled(init, rc, infra) ==
    IF init THEN "already"
    ELSE IF rc.err # NilErr THEN "config-error"
    ELSE IF infra = "exporter" THEN "exporter-error"
    ELSE IF infra = "resource" THEN "resource-error"
    ELSE "install"

InitPath(init, rc, infra) ==
    IF init THEN "already"
    ELSE IF rc.err # NilErr THEN "config-error"
    ELSE IF ~rc.cfg.enabled THEN "disabled"
    ELSE IF infra = "exporter" THEN "exporter-error"
    ELSE IF infra = "resource" THEN "resource-error"
    ELSE "install"

(* The error Init returns on each path that does not install. *)
InitError(path, rc) ==
    CASE path = "config-error" -> rc.err
      [] path = "exporter-error" -> "triage: failed to create OTLP exporter"
      [] path = "resource-error" -> "triage: failed to create resource"
      [] OTHER -> NilErr

(* mu.Lock() *)
InitLock(g) ==
    /\ pc[g] = "idle"
    /\ TryLock(mu)
    /\ mu' = g
    /\ pc' = [pc EXCEPT ![g] = "Init:locked"]
    /\ UNCHANGED <<initialized, provider, activeConfig, pipelines, globalTP,
                   local, ret, ctxVars, spans, llmVars>>

(* Lines 44-89: every early return (with the deferred Unlock), or on to   *)
(* building the provider.  e is the process environment (and os.Args[0])  *)
(* as resolveConfig reads it during this call.                            *)
InitCheck(g, e, opts, infra) ==
    /\ pc[g] = "Init:locked"
    /\ LET rc == resolveConfig(e, opts)
           path == InitPath(initialized, rc, infra)
       IN  IF path = "install"
           THEN /\ Len(pipelines) < MaxPipelines
                /\ local' = [local EXCEPT ![g] = Locals(rc.cfg, FALSE)]
                /\ pc' = [pc EXCEPT ![g] = "Init:install"]
                /\ UNCHANGED <<mu, ret>>
           ELSE /\ ret' = [ret EXCEPT
                             ![g] = Returned(path, "noop", InitError(path, rc), 0)]
                /\ mu' = 0
                /\ pc' = [pc EXCEPT ![g] = "idle"]
                /\ UNCHANGED local
    /\ UNCHANGED <<initialized, provider, activeConfig, pipelines, globalTP,
                   ctxVars, spans, llmVars>>

(* Lines 94-122: create the TracerProvider, register it globally, store   *)
(* the state, return the shutdown closure; the deferred Unlock runs.      *)
InitInstall(g) ==
    /\ pc[g] = "Init:install"
    /\ pipelines' = Append(pipelines, [state |-> "active", cfg |-> local[g].cfg])
    /\ globalTP' = Len(pipelines) + 1
    /\ provider' = Len(pipelines) + 1
    /\ activeConfig' = local[g].cfg
    /\ initialized' = TRUE
    /\ ret' = [ret EXCEPT
                 ![g] = Returned("install", "shutdown", NilErr, Len(pipelines) + 1)]
    /\ local' = [local EXCEPT ![g] = NoLocals]
    /\ mu' = 0
    /\ pc' = [pc EXCEPT ![g] = "idle"]
    /\ UNCHANGED <<ctxVars, spans, llmVars>>

(* Shutdown returns at once when there is nothing to shut down. *)
ShutdownSkips(init, prov) == ~init \/ prov = 0

(* What Shutdown returns: nil on the early return, else the error of     *)
(* provider.Shutdown.                                                     *)
ShutdownError_NotInitialized(skipped, flushErr) ==
    IF skipped THEN "triage: not initialized" ELSE flushErr
ShutdownError_Swallowed(skipped, flushErr) == NilErr
ShutdownError(skipped, flushErr) == IF skipped THEN NilErr ELSE flushErr

(* Shutdown's return as the caller sees it: the error itself from a      *)
(* direct call; through the closure the error is logged when not nil and *)
(* nothing is returned.                                                   *)
ShutdownReturn(r, closure, spath, err) ==
    IF closure
    THEN [r EXCEPT !.spath = spath,
                   !.logged = IF err # NilErr THEN err ELSE r.logged]
    ELSE [r EXCEPT !.spath = spath, !.shutdownErr = err]

(* Shutdown(ctx): mu.Lock(). *)
ShutdownLock(g) ==
    /\ pc[g] = "idle"
    /\ TryLock(mu)
    /\ mu' = g
    /\ pc' = [pc EXCEPT ![g] = "Shutdown:locked"]
    /\ local' = [local EXCEPT ![g] = Locals(NilConfig, FALSE)]
    /\ UNCHANGED <<initialized, provider, activeConfig, pipelines, globalTP,
                   ret, ctxVars, spans, llmVars>>

(* Calling the func Init returned: the inert one does nothing, the       *)
(* closure calls Shutdown with a five second deadline.                   *)
CallHandle(g) ==
    /\ pc[g] = "idle"
    /\ ret[g].handle \in {"noop", "shutdown"}
    /\ ~ret[g].called
    /\ ret' = [ret EXCEPT ![g].called = TRUE]
    /\ IF ret[g].handle = "noop"
       THEN UNCHANGED <<mu, pc, local>>
       ELSE /\ TryLock(mu)
            /\ mu' = g
            /\ pc' = [pc EXCEPT ![g] = "Shutdown:locked"]
            /\ local' = [local EXCEPT ![g] = Locals(NilConfig, TRUE)]
    /\ UNCHANGED <<initialized, provider, activeConfig, pipelines, globalTP,
                   ctxVars, spans, llmVars>>

(* Line 134: the early return, or into provider.Shutdown(ctx). *)
ShutdownCheck(g) ==
    /\ pc[g] = "Shutdown:locked"
    /\ IF ShutdownSkips(initialized, provider)
       THEN /\ ret' = [ret EXCEPT
                         ![g] = ShutdownReturn(ret[g], local[g].closure, "skipped",
                                               ShutdownError(TRUE, NilErr))]
            /\ local' = [local EXCEPT ![g] = NoLocals]
            /\ mu' = 0
            /\ pc' = [pc EXCEPT ![g] = "idle"]
       ELSE /\ pc' = [pc EXCEPT ![g] = "Shutdown:flushing"]
            /\ UNCHANGED <<mu, ret, local>>
    /\ UNCHANGED <<initialized, provider, activeConfig, pipelines, globalTP,
                   ctxVars, spans, llmVars>>

(* Lines 138-142: provider.Shutdown returns (nil, or an error such as    *)
(* the deadline passing), the state is cleared, the deferred Unlock runs.*)
ShutdownFlush(g, flushErr) ==
    /\ pc[g] = "Shutdown:flushing"
    /\ pipelines' = [p \in DOMAIN pipelines |->
                       IF p = provider
                       THEN [pipelines[p] EXCEPT !.state = "shutdown"]
                       ELSE pipelines[p]]
    /\ initialized' = FALSE
    /\ provider' = 0
    /\ activeConfig' = NilConfig
    /\ ret' = [ret EXCEPT
                 ![g] = ShutdownReturn(ret[g], local[g].closure, "flushed",
                                       ShutdownError(FALSE, flushErr))]
    /\ local' = [local EXCEPT ![g] = NoLocals]
    /\ mu' = 0
    /\ pc' = [pc EXCEPT ![g] = "idle"]
    /\ UNCHANGED <<globalTP, ctxVars, spans, llmVars>>

-----------------------------------------------------------------------------
(* Starting spans: the triage span processor (processor.go) and          *)
(* tracer.Start on the tracer of otel.GetTracerProvider().               *)

(* triageSpanProcessor.OnStart, mutated: writes nothing. *)
OnStart_Nothing(cs, h, c, span) == span

(* triageSpanProcessor.OnStart(ctx, span) *)
OnStart(cs, h, c, span) ==
    LET attrs == getTriageAttrs(cs, h, c)
    IN  IF Len(attrs) > 0
        THEN [span EXCEPT !.attrs = PutAttrs(@, attrs)]
        ELSE span

(* tracer.Start, mutated: hands back the context it was given, which   *)
(* does not carry the new span.                                         *)
tracerStart_SameContext(cs, h, sp, ps, tp, c, name) ==
    LET raw == NewSpan(name, SpanFromContext(cs, c), Live(ps, tp),
                       IF Live(ps, tp) THEN tp ELSE 0, c)
        started == IF raw.recording THEN OnStart(cs, h, c, raw) ELSE raw
    IN  [spans |-> Append(sp, [started EXCEPT !.atStart = started.attrs]),
         ctxs |-> Append(cs, CtxNode(c, "span", triageContext, Len(sp) + 1, "")),
         span |-> Len(sp) + 1,
         ctx |-> c]

(* ctx, span := tracer.Start(ctx, name): the new span (recording, and    *)
(* passed to OnStart with ctx, when the provider is live) and the        *)
(* context that carries it.                                              *)
tracerStart(cs, h, sp, ps, tp, c, name) ==
    LET raw == NewSpan(name, SpanFromContext(cs, c), Live(ps, tp),
                       IF Live(ps, tp) THEN tp ELSE 0, c)
        started == IF raw.recording THEN OnStart(cs, h, c, raw) ELSE raw
    IN  [spans |-> Append(sp, [started EXCEPT !.atStart = started.attrs]),
         ctxs |-> Append(cs, CtxNode(c, "span", triageContext, Len(sp) + 1, "")),
         span |-> Len(sp) + 1,
         ctx |-> Len(cs) + 1]

-----------------------------------------------------------------------------
(* LLM call spans, llm.go: LogPrompt, LogCompletion, End, SetError.       *)


(* *float64 and *int: nil, or pointing at a value (a float is kept as   *)
(* its decimal text).                                                     *)
NilFloat == [nil |-> TRUE, f |-> ""]
FloatPtr(f) == [nil |-> FALSE, f |-> f]
NilInt == [nil |-> TRUE, n |-> 0]
IntPtr(n) == [nil |-> FALSE, n |-> n]

(* The nil interface value of a Parameters field; any other value here   *)
(* is a []map[string]any.                                                 *)
NilAny == [nilInterface |-> TRUE]

ToolCall(id, type, name, arguments) ==
    [id |-> id, type |-> type, name |-> name, arguments |-> arguments]
Message(role, content, toolCalls) ==
    [role |-> role, content |-> content, toolCalls |-> toolCalls]
ToolDefinition(name, description, parameters) ==
    [name |-> name, description |-> description, parameters |-> parameters]
Usage(input, output, total, reasoning, cacheRead, cacheWrite) ==
    [inputTokens |-> input, outputTokens |-> output, totalTokens |-> total,
     reasoningTokens |-> reasoning, cacheReadTokens |-> cacheRead,
     cacheWriteTokens |-> cacheWrite]
PromptParams(vendor, model, messages, tools, temperature, topP, maxTokens, stop) ==
    [vendor |-> vendor, model |-> model, messages |-> messages, tools |-> tools,
     temperature |-> temperature, topP |-> topP, maxTokens |-> maxTokens,
     stop |-> stop]
CompletionParams(model, messages, usage, finishReason) ==
    [model |-> model, messages |-> messages, usage |-> usage,
     finishReason |-> finishReason]

(* shouldTraceContent, once it holds mu. *)
shouldTraceContent_Always(cfg) == TRUE
shouldTraceContent_OffWithoutConfig(cfg) == cfg # NilConfig /\ cfg.traceContent
shouldTraceContent(cfg) == cfg = NilConfig \/ cfg.traceContent

(* The tool calls of one message, from call j on (setMessageAttrs, the   *)
(* inner loop); tp is "<p>.tool_calls.<j>".                              *)
RECURSIVE toolCallAttrs(_, _, _)
toolCallAttrs(p, calls, j) ==
    IF j > Len(calls) THEN <<>>
    ELSE LET tp == p \o ".tool_calls." \o ToString(j - 1)
             tc == calls[j]
             a1 == AppendIf(tc.id # "", <<>>, StringKV(tp \o ".id", tc.id))
             a2 == AppendIf(tc.type # "", a1, StringKV(tp \o ".type", tc.type))
             a3 == AppendIf(tc.name # "", a2, StringKV(tp \o ".name", tc.name))
             a4 == AppendIf(tc.arguments # "", a3,
                            StringKV(tp \o ".arguments", tc.arguments))
         IN  a4 \o toolCallAttrs(p, calls, j + 1)

(* setMessageAttrs from message i on; p is "<prefix>.<i>". *)
RECURSIVE messageAttrs(_, _, _)
messageAttrs(prefix, messages, i) ==
    IF i > Len(messages) THEN <<>>
    ELSE LET p == prefix \o "." \o ToString(i - 1)
             msg == messages[i]
             a1 == AppendIf(msg.role # "", <<>>, StringKV(p \o ".role", msg.role))
             a2 == AppendIf(msg.content # "", a1,
                            StringKV(p \o ".content", msg.content))
         IN  a2 \o toolCallAttrs(p, msg.toolCalls, 1)
                \o messageAttrs(prefix, messages, i + 1)

(* setMessageAttrs(span, prefix, messages): the attributes it sets, in   *)
(* order.                                                                 *)
setMessageAttrs(prefix, messages) == messageAttrs(prefix, messages, 1)

(* setToolDefinitionAttrs from tool i on. *)
RECURSIVE toolDefinitionAttrs(_, _)
toolDefinitionAttrs(tools, i) ==
    IF i > Len(tools) THEN <<>>
    ELSE LET p == "gen_ai.request.tools." \o ToString(i - 1)
             tool == tools[i]
             a1 == AppendIf(tool.name # "", <<>>, StringKV(p \o ".name", tool.name))
             a2 == AppendIf(tool.description # "", a1,
                            StringKV(p \o ".description", tool.description))
             a3 == IF tool.parameters # NilAny
                   THEN AppendIf(~jsonMarshal(tool.parameters).err, a2,
                                 StringKV(p \o ".parameters",
                                          jsonMarshal(tool.parameters).data))
                   ELSE a2
         IN  a3 \o toolDefinitionAttrs(tools, i + 1)

setToolDefinitionAttrs(tools) == toolDefinitionAttrs(tools, 1)

(* LogPrompt, lines 110-127: the request attributes. *)
requestAttrs(params) ==
    LET a1 == AppendIf(params.vendor # "", <<>>,
                       StringKV("gen_ai.system", params.vendor))
        a2 == AppendIf(params.model # "", a1,
                       StringKV("gen_ai.request.model", params.model))
        a3 == AppendIf(~params.temperature.nil, a2,
                       Float64KV("gen_ai.request.temperature", params.temperature.f))
        a4 == AppendIf(~params.topP.nil, a3,
                       Float64KV("gen_ai.request.top_p", params.topP.f))
        a5 == AppendIf(~params.maxTokens.nil, a4,
                       IntKV("gen_ai.request.max_tokens", params.maxTokens.n))
    IN  AppendIf(Len(params.stop) > 0, a5,
                 StringSliceKV("gen_ai.request.stop_sequences", params.stop))

(* LogPrompt, lines 130-133: messages and tool definitions, when content *)
(* tracing is on.                                                         *)
promptContentAttrs(params, content) ==
    IF content
    THEN setMessageAttrs("gen_ai.prompt", params.messages)
             \o setToolDefinitionAttrs(params.tools)
    ELSE <<>>

(* LogCompletion, lines 146-171: the response and usage attributes. *)
completionAttrs(params) ==
    LET u == params.usage
        a1 == AppendIf(params.model # "", <<>>,
                       StringKV("gen_ai.response.model", params.model))
        a2 == AppendIf(params.finishReason # "", a1,
                       StringKV("gen_ai.response.finish_reason", params.finishReason))
        a3 == AppendIf(u.inputTokens > 0, a2,
                       IntKV("gen_ai.usage.input_tokens", u.inputTokens))
        a4 == AppendIf(u.outputTokens > 0, a3,
                       IntKV("gen_ai.usage.output_tokens", u.outputTokens))
        a5 == AppendIf(u.totalTokens > 0, a4,
                       IntKV("gen_ai.usage.total_tokens", u.totalTokens))
        a6 == AppendIf(u.reasoningTokens > 0, a5,
                       IntKV("gen_ai.usage.reasoning_tokens", u.reasoningTokens))
        a7 == AppendIf(u.cacheReadTokens > 0, a6,
                       IntKV("gen_ai.usage.cache_read_tokens", u.cacheReadTokens))
        a8 == AppendIf(u.cacheWriteTokens > 0, a7,
                       IntKV("gen_ai.usage.cache_write_tokens", u.cacheWriteTokens))
    IN  a8

(* LogCompletion, lines 174-176: the messages, when content tracing is   *)
(* on.                                                                    *)
completionContentAttrs(params, content) ==
    IF content THEN setMessageAttrs("gen_ai.completion", params.messages) ELSE <<>>

(* &LLMSpan{span: span} (part_001: with ctx).  file says which LogPrompt  *)
(* made it.  History kept with it: the request, the configuration in    *)
(* force at LogPrompt, whether LogCompletion or End was called, whether  *)
(* any call came after that (late), the completion the first             *)
(* LogCompletion was given with the configuration in force then, what    *)
(* Context returned, and the error of the last SetError made before      *)
(* LogCompletion or End.                                                  *)
NoCompletion == [none |-> TRUE]
NoContext == [called |-> FALSE, ctx |-> 0]
LLMSpan(file, span, ctx, params, cfg) ==
    [file |-> file, nil |-> FALSE, span |-> span, ctx |-> ctx, params |-> params,
     cfg |-> cfg, closed |-> FALSE, late |-> FALSE,
     completion |-> NoCompletion, completionCfg |-> NilConfig,
     returned |-> NoContext, lastErr |-> ""]

(* Unopened LLMSpans, which only callers make: the zero value &LLMSpan{} *)
(* (span and ctx nil, written 0) and the nil pointer var s *LLMSpan.     *)
NoRequest == [none |-> TRUE]
ZeroLLMSpan(file) == LLMSpan(file, 0, 0, NoRequest, NilConfig)
NilLLMSpan(file) == [ZeroLLMSpan(file) EXCEPT !.nil = TRUE]

(* The contexts made by anything but the annotation helpers keep the     *)
(* annotation history of the context they derive from.                   *)
Inherit(ls, c) == Append(ls, ls[c])

(* The LLM calls of llm.go come from one goroutine.  A call is a step   *)
(* up to shouldTraceContent, where it waits for mu; a step in which      *)
(* shouldTraceContent holds mu and reads activeConfig; and a step for    *)
(* the rest, made after mu was released.  What the call has in hand is   *)
(* in the goroutine's locals: content is what shouldTraceContent         *)
(* returned and cfg the configuration it read.                           *)
Caller == CHOOSE g \in Goroutines : \A h \in Goroutines : h <= g
PromptLocals(span, ctx, params) ==
    [span |-> span, ctx |-> ctx, params |-> params, content |-> FALSE,
     cfg |-> NilConfig]
CompletionLocals(l, params) ==
    [llm |-> l, params |-> params, content |-> FALSE, cfg |-> NilConfig]

(* A LogPrompt of llm.go that has not returned its LLMSpan yet. *)
InLogPrompt == pc[Caller] \in {"LogPrompt:content", "LogPrompt:return"}
Opening == IF InLogPrompt THEN 1 ELSE 0

(* The contexts callers hold: every context but the one a LogPrompt      *)
(* made and has not returned yet, which is a local of that call.         *)
Held == IF InLogPrompt THEN DOMAIN ctxs \ {local[Caller].ctx} ELSE DOMAIN ctxs

(* LogPrompt(ctx, params), llm.go 100-127: the span is started and the   *)
(* request attributes are set.                                            *)
LogPrompt(c, params) ==
    /\ pc[Caller] = "idle"
    /\ Len(spans) < MaxSpans
    /\ Len(llms) < MaxLLM
    /\ LET spanName == IF params.vendor = "" THEN "llm.chat"
                       ELSE params.vendor \o ".chat"
           st == tracerStart(ctxs, heap, spans, pipelines, globalTP, c, spanName)
       IN  /\ spans' = SetAttributes(st.spans, st.span, requestAttrs(params))
           /\ ctxs' = st.ctxs
           /\ lastSet' = Inherit(lastSet, c)
           /\ local' = [local EXCEPT ![Caller] = PromptLocals(st.span, st.ctx, params)]
    /\ pc' = [pc EXCEPT ![Caller] = "LogPrompt:content"]
    /\ UNCHANGED <<heap, mu, initialized, provider, activeConfig, pipelines,
                   globalTP, ret, llmVars>>

(* LogPrompt, llm.go 130: shouldTraceContent takes mu, reads            *)
(* activeConfig and releases mu (201-205).                                *)
LogPromptContent ==
    /\ pc[Caller] = "LogPrompt:content"
    /\ TryLock(mu)
    /\ local' = [local EXCEPT ![Caller].content = shouldTraceContent(activeConfig),
                              ![Caller].cfg = activeConfig]
    /\ pc' = [pc EXCEPT ![Caller] = "LogPrompt:return"]
    /\ UNCHANGED <<ctxVars, spans, mu, initialized, provider, activeConfig,
                   pipelines, globalTP, ret, llmVars>>

(* LogPrompt, llm.go 131-135: the messages and tool definitions are set  *)
(* when shouldTraceContent said so, and the context and the LLMSpan are  *)
(* returned.                                                              *)
LogPromptReturn ==
    /\ pc[Caller] = "LogPrompt:return"
    /\ spans' = SetAttributes(spans, local[Caller].span,
                    promptContentAttrs(local[Caller].params, local[Caller].content))
    /\ llms' = Append(llms, LLMSpan("llm.go", local[Caller].span, local[Caller].ctx,
                                    local[Caller].params, local[Caller].cfg))
    /\ local' = [local EXCEPT ![Caller] = NoLocals]
    /\ pc' = [pc EXCEPT ![Caller] = "idle"]
    /\ UNCHANGED <<ctxVars, mu, initialized, provider, activeConfig, pipelines,
                   globalTP, ret, hier, globalCfg, panicked>>

(* What a call on an LLMSpan adds to its history. *)
NoteCall(l, closes, params, cfg) ==
    [l EXCEPT !.closed = @ \/ closes,
              !.late = @ \/ l.closed,
              !.completion = IF params # NoCompletion /\ @ = NoCompletion
                             THEN params ELSE @,
              !.completionCfg = IF params # NoCompletion
                                   /\ l.completion = NoCompletion
                                THEN cfg ELSE @]

(* LogCompletion, mutated: the deferred End is missing. *)
LogCompletion_NoEnd(sp, ps, sid, params, content) ==
    SetAttributes(sp, sid, completionContentAttrs(params, content))

(* s.LogCompletion(params), llm.go 174-177, on the spans: the messages   *)
(* are set when content tracing is on, then the deferred End runs.       *)
LogCompletionSpans(sp, ps, sid, params, content) ==
    EndSpan(SetAttributes(sp, sid, completionContentAttrs(params, content)), ps, sid)

(* s.LogCompletion(params), llm.go 140-171.  Reading s.span through a    *)
(* nil s is a nil pointer dereference; with s.span nil the call returns  *)
(* at once; else the response and usage attributes are set and the call  *)
(* goes on to shouldTraceContent.                                        *)
LogCompletion(l, params) ==
    /\ llms[l].file = "llm.go"
    /\ pc[Caller] = "idle"
    /\ IF llms[l].nil
       THEN /\ panicked' = TRUE
            /\ llms' = [llms EXCEPT ![l] = NoteCall(@, TRUE, params, activeConfig)]
            /\ UNCHANGED <<spans, pc, local>>
       ELSE IF llms[l].span = 0
       THEN /\ llms' = [llms EXCEPT ![l] = NoteCall(@, TRUE, params, activeConfig)]
            /\ UNCHANGED <<spans, panicked, pc, local>>
       ELSE /\ spans' = SetAttributes(spans, llms[l].span, completionAttrs(params))
            /\ local' = [local EXCEPT ![Caller] = CompletionLocals(l, params)]
            /\ pc' = [pc EXCEPT ![Caller] = "LogCompletion:content"]
            /\ UNCHANGED <<llms, panicked>>
    /\ UNCHANGED <<ctxVars, mu, initialized, provider, activeConfig, pipelines,
                   globalTP, ret, hier, globalCfg>>

(* LogCompletion, llm.go 174: shouldTraceContent takes mu, reads        *)
(* activeConfig and releases mu (201-205).                                *)
LogCompletionContent ==
    /\ pc[Caller] = "LogCompletion:content"
    /\ TryLock(mu)
    /\ local' = [local EXCEPT ![Caller].content = shouldTraceContent(activeConfig),
                              ![Caller].cfg = activeConfig]
    /\ pc' = [pc EXCEPT ![Caller] = "LogCompletion:end"]
    /\ UNCHANGED <<ctxVars, spans, mu, initialized, provider, activeConfig,
                   pipelines, globalTP, ret, llmVars>>

(* LogCompletion, llm.go 175-177: the messages are set when              *)
(* shouldTraceContent said so, the deferred End (144) runs and the call  *)
(* returns.                                                               *)
LogCompletionEnd ==
    /\ pc[Caller] = "LogCompletion:end"
    /\ spans' = LogCompletionSpans(spans, pipelines, llms[local[Caller].llm].span,
                                   local[Caller].params, local[Caller].content)
    /\ llms' = [llms EXCEPT ![local[Caller].llm] =
                   NoteCall(@, TRUE, local[Caller].params, local[Caller].cfg)]
    /\ local' = [local EXCEPT ![Caller] = NoLocals]
    /\ pc' = [pc EXCEPT ![Caller] = "idle"]
    /\ UNCHANGED <<ctxVars, mu, initialized, provider, activeConfig, pipelines,
                   globalTP, ret, hier, globalCfg, panicked>>

(* s.End() *)
End(l) ==
    /\ llms[l].file = "llm.go"
    /\ pc[Caller] = "idle"
    /\ IF llms[l].nil
       THEN /\ panicked' = TRUE
            /\ spans' = spans
       ELSE /\ spans' = IF llms[l].span # 0
                        THEN EndSpan(spans, pipelines, llms[l].span)
                        ELSE spans
            /\ UNCHANGED panicked
    /\ llms' = [llms EXCEPT ![l] = NoteCall(@, TRUE, NoCompletion, NilConfig)]
    /\ UNCHANGED <<ctxVars, lifeVars, hier, globalCfg>>

(* SetError, mutated: the span is ended as well. *)
SetErrorSpans_Ends(sp, ps, sid, err) ==
    EndSpan(SetStatus(RecordError(sp, sid, err), sid, "Error", err), ps, sid)

(* s.SetError(err) with a span and an error that is not nil, on the      *)
(* spans: RecordError, then SetStatus(codes.Error, err.Error()).         *)
SetErrorSpans(sp, ps, sid, err) ==
    SetStatus(RecordError(sp, sid, err), sid, "Error", err)

(* s.SetError(err).  err.Error() dereferences err: a nil err panics      *)
(* there, after RecordError(nil) recorded nothing.                       *)
SetError(l, err) ==
    /\ llms[l].file = "llm.go"
    /\ pc[Caller] = "idle"
    /\ IsRecording(spans, llms[l].span) => spans[llms[l].span].events < MaxEvents
    /\ IF llms[l].nil
       THEN /\ panicked' = TRUE
            /\ spans' = spans
       ELSE IF llms[l].span = 0
       THEN UNCHANGED <<spans, panicked>>
       ELSE IF err = "nil"
       THEN /\ spans' = RecordError(spans, llms[l].span, err)
            /\ panicked' = TRUE
       ELSE /\ spans' = SetErrorSpans(spans, pipelines, llms[l].span, err)
            /\ UNCHANGED panicked
    /\ llms' = [llms EXCEPT
                  ![l] = [NoteCall(@, FALSE, NoCompletion, NilConfig)
                              EXCEPT !.lastErr = IF llms[l].closed THEN @ ELSE err]]
    /\ UNCHANGED <<ctxVars, lifeVars, hier, globalCfg>>

-----------------------------------------------------------------------------
(* LLM call spans, part_001: LogPrompt and LogCompletion with the gen_ai *)
(* and llm attribute schemes.  Its names carry a 2 where llm.go has the  *)
(* same name.                                                             *)

ToolCallFunction(name, arguments) == [name |-> name, arguments |-> arguments]
ToolCall2(id, type, function) == [id |-> id, type |-> type, function |-> function]
Message2(role, content, toolCalls, toolCallID) ==
    [role |-> role, content |-> content, toolCalls |-> toolCalls,
     toolCallID |-> toolCallID]
ToolFunction(name, description, parameters) ==
    [name |-> name, description |-> description, parameters |-> parameters]
ToolDef(type, function) == [type |-> type, function |-> function]
Prompt(vendor, model, messages, tools, maxTokens, temperature, topP, frequencyPenalty, presencePenalty, stop) ==
    [vendor |-> vendor, model |-> model, messages |-> messages, tools |-> tools,
     maxTokens |-> maxTokens, temperature |-> temperature, topP |-> topP,
     frequencyPenalty |-> frequencyPenalty, presencePenalty |-> presencePenalty,
     stop |-> stop]
Completion(model, messages) == [model |-> model, messages |-> messages]
Usage2(prompt, completion, total) ==
    [promptTokens |-> prompt, completionTokens |-> completion, totalTokens |-> total]

(* isTraceContentEnabled *)
isTraceContentEnabled(cfg) == IF cfg = NilConfig THEN TRUE ELSE cfg.traceContent

(* The tool calls of one message, from call j on. *)
RECURSIVE toolCallAttrs2(_, _, _)
toolCallAttrs2(prefix, calls, j) ==
    IF j > Len(calls) THEN <<>>
    ELSE LET tcPrefix == prefix \o ".tool_calls." \o ToString(j - 1)
             tc == calls[j]
         IN  <<StringKV(tcPrefix \o ".id", tc.id),
               StringKV(tcPrefix \o ".type", tc.type),
               StringKV(tcPrefix \o ".function.name", tc.function.name),
               StringKV(tcPrefix \o ".function.arguments", tc.function.arguments)>>
             \o toolCallAttrs2(prefix, calls, j + 1)

(* The message loops of LogPrompt (withID) and LogCompletion, from       *)
(* message i on.                                                          *)
RECURSIVE messageAttrs2(_, _, _, _)
messageAttrs2(scheme, messages, i, withID) ==
    IF i > Len(messages) THEN <<>>
    ELSE LET prefix == scheme \o "." \o ToString(i - 1)
             msg == messages[i]
             a1 == <<StringKV(prefix \o ".role", msg.role)>>
             a2 == AppendIf(msg.content # "", a1,
                            StringKV(prefix \o ".content", msg.content))
             a3 == a2 \o toolCallAttrs2(prefix, msg.toolCalls, 1)
             a4 == AppendIf(withID /\ msg.toolCallID # "", a3,
                            StringKV(prefix \o ".tool_call_id", msg.toolCallID))
         IN  a4 \o messageAttrs2(scheme, messages, i + 1, withID)

(* The tool definition loop of LogPrompt, from tool i on. *)
RECURSIVE toolDefAttrs2(_, _)
toolDefAttrs2(tools, i) ==
    IF i > Len(tools) THEN <<>>
    ELSE LET prefix == "gen_ai.request.tool." \o ToString(i - 1)
             tool == tools[i]
             a1 == <<StringKV(prefix \o ".type", tool.type),
                     StringKV(prefix \o ".function.name", tool.function.name)>>
             a2 == AppendIf(tool.function.description # "", a1,
                            StringKV(prefix \o ".function.description",
                                     tool.function.description))
             a3 == IF tool.function.parameters # NilAny
                   THEN AppendIf(~jsonMarshal(tool.function.parameters).err, a2,
                                 StringKV(prefix \o ".function.parameters",
                                          jsonMarshal(tool.function.parameters).data))
                   ELSE a2
         IN  a3 \o toolDefAttrs2(tools, i + 1)

(* LogPrompt of part_001, mutated: the tool definitions are recorded    *)
(* only with the content.                                                 *)
promptAttrs2_ToolsWithContent(prompt, content) ==
    <<StringKV("gen_ai.system", prompt.vendor),
      StringKV("gen_ai.request.model", prompt.model),
      StringKV("llm.vendor", prompt.vendor),
      StringKV("llm.request.model", prompt.model),
      StringKV("llm.request.type", "chat")>>
    \o (IF content
        THEN messageAttrs2("gen_ai.prompt", prompt.messages, 1, TRUE)
                 \o toolDefAttrs2(prompt.tools, 1)
        ELSE <<>>)

(* LogPrompt, part_001 lines 135-198: attrs as it is built. *)
promptAttrs2(prompt, content) ==
    LET a1 == <<StringKV("gen_ai.system", prompt.vendor),
                StringKV("gen_ai.request.model", prompt.model),
                StringKV("llm.vendor", prompt.vendor),
                StringKV("llm.request.model", prompt.model),
                StringKV("llm.request.type", "chat")>>
        a2 == AppendIf(prompt.maxTokens > 0, a1,
                       IntKV("gen_ai.request.max_tokens", prompt.maxTokens))
        a3 == AppendIf(~prompt.temperature.nil, a2,
                       Float64KV("gen_ai.request.temperature", prompt.temperature.f))
        a4 == AppendIf(~prompt.topP.nil, a3,
                       Float64KV("gen_ai.request.top_p", prompt.topP.f))
        a5 == AppendIf(~prompt.frequencyPenalty.nil, a4,
                       Float64KV("gen_ai.request.frequency_penalty",
                                 prompt.frequencyPenalty.f))
        a6 == AppendIf(~prompt.presencePenalty.nil, a5,
                       Float64KV("gen_ai.request.presence_penalty",
                                 prompt.presencePenalty.f))
        a7 == AppendIf(Len(prompt.stop) > 0, a6,
                       StringSliceKV("gen_ai.request.stop_sequences", prompt.stop))
        a8 == IF content
              THEN a7 \o messageAttrs2("gen_ai.prompt", prompt.messages, 1, TRUE)
              ELSE a7
    IN  a8 \o toolDefAttrs2(prompt.tools, 1)

(* LogCompletion, part_001 lines 210-250: attrs as it is built. *)
completionAttrs2(completion, usage, content) ==
    LET a1 == IF completion.model # ""
              THEN <<StringKV("gen_ai.response.model", completion.model),
                     StringKV("llm.response.model", completion.model)>>
              ELSE <<>>
        a2 == a1 \o <<IntKV("gen_ai.usage.input_tokens", usage.promptTokens),
                      IntKV("gen_ai.usage.output_tokens", usage.completionTokens),
                      IntKV("llm.usage.prompt_tokens", usage.promptTokens),
                      IntKV("llm.usage.completion_tokens", usage.completionTokens),
                      IntKV("llm.usage.total_tokens", usage.totalTokens)>>
    IN  IF content
        THEN a2 \o messageAttrs2("gen_ai.completion", completion.messages, 1, FALSE)
        ELSE a2

(* LogPrompt(ctx, prompt), part_001.  globalCfg is read without a lock.  *)
LogPrompt2(c, prompt) ==
    /\ Len(spans) < MaxSpans
    /\ Len(llms) + Opening < MaxLLM
    /\ LET spanName == IF prompt.model # ""
                       THEN prompt.vendor \o ".chat " \o prompt.model
                       ELSE prompt.vendor \o ".chat"
           st == tracerStart(ctxs, heap, spans, pipelines, globalTP, c, spanName)
           content == isTraceContentEnabled(globalCfg)
       IN  /\ spans' = SetAttributes(st.spans, st.span, promptAttrs2(prompt, content))
           /\ ctxs' = st.ctxs
           /\ lastSet' = Inherit(lastSet, c)
           /\ llms' = Append(llms, LLMSpan("part_001", st.span, st.ctx, prompt,
                                        globalCfg))
    /\ UNCHANGED <<heap, lifeVars, hier, globalCfg, panicked>>

(* ls.LogCompletion(completion, usage), part_001: returns at once when  *)
(* ls or ls.span is nil.                                                  *)
LogCompletion2(l, completion, usage) ==
    /\ llms[l].file = "part_001"
    /\ LET content == isTraceContentEnabled(globalCfg)
           set == SetAttributes(spans, llms[l].span,
                                completionAttrs2(completion, usage, content))
       IN  /\ spans' = IF llms[l].nil \/ llms[l].span = 0
                        THEN spans
                        ELSE EndSpan(set, pipelines, llms[l].span)
           /\ llms' = [llms EXCEPT
                         ![l] = NoteCall(@, TRUE,
                                         [completion |-> completion, usage |-> usage],
                                         globalCfg)]
    /\ UNCHANGED <<ctxVars, lifeVars, hier, globalCfg, panicked>>

(* ls.Context(), part_001: context.Background() for a nil ls, else      *)
(* ls.ctx.  The value returned is kept with the LLMSpan.                 *)
ContextOf(ls) == IF ls.nil THEN Background ELSE ls.ctx

Context(l) ==
    /\ llms[l].file = "part_001"
    /\ ~llms[l].returned.called
    /\ llms' = [llms EXCEPT
                  ![l].returned = [called |-> TRUE, ctx |-> ContextOf(llms[l])]]
    /\ UNCHANGED <<ctxVars, spans, lifeVars, hier, globalCfg, panicked>>

(* s := &LLMSpan{} and var ls *LLMSpan in a caller. *)
ZeroValue(file) ==
    /\ Len(llms) + Opening < MaxLLM
    /\ llms' = Append(llms, ZeroLLMSpan(file))
    /\ UNCHANGED <<ctxVars, spans, lifeVars, hier, globalCfg, panicked>>

NilPointer(file) ==
    /\ Len(llms) + Opening < MaxLLM
    /\ llms' = Append(llms, NilLLMSpan(file))
    /\ UNCHANGED <<ctxVars, spans, lifeVars, hier, globalCfg, panicked>>

(* globalCfg = cfg.  The Init that assigns it for part_001 is not among  *)
(* the sources; llm_test.go assigns it directly.                         *)
StoreGlobalCfg(cfg) ==
    /\ globalCfg # cfg
    /\ globalCfg' = cfg
    /\ UNCHANGED <<ctxVars, spans, lifeVars, llms, hier, panicked>>

-----------------------------------------------------------------------------
(* The span hierarchy (workflow.go): StartWorkflow, StartTask,           *)
(* StartAgent, StartTool.                                                 *)

spanKindWorkflow == "workflow"
spanKindTask == "task"
spanKindAgent == "agent"
spanKindTool == "tool"

(* workflowNameFromContext, mutated: only the value ctx itself holds is *)
(* read, not those of the contexts it derives from.                      *)
workflowNameFromContext_Direct(cs, c) ==
    IF c # 0 /\ cs[c].key = "workflowName" THEN cs[c].wf ELSE ""

(* workflowNameFromContext: ctx.Value(workflowNameKey{}), or "". *)
RECURSIVE workflowNameFromContext(_, _)
workflowNameFromContext(cs, c) ==
    IF c = 0 THEN ""
    ELSE IF cs[c].key = "workflowName" THEN cs[c].wf
    ELSE workflowNameFromContext(cs, cs[c].parent)

(* &Workflow{span, ctx, name}, &Task{...}, &Agent{...}, &ToolSpan{...} *)
(* History kept with it: the End calls made on it (0, 1, or 2 for more)  *)
(* and what Context returned.                                            *)
HierSpan(kind, span, ctx, name) ==
    [kind |-> kind, nil |-> FALSE, span |-> span, ctx |-> ctx, name |-> name,
     ends |-> 0, returned |-> NoContext]

(* var wf *Workflow (and *Task, *Agent, *ToolSpan) in a caller. *)
NilHierSpan(kind) == [HierSpan(kind, 0, 0, "") EXCEPT !.nil = TRUE]

StartWorkflow(c, name) ==
    /\ Len(hier) < MaxHier
    /\ LET st == tracerStart(ctxs, heap, spans, pipelines, globalTP, c, name)
       IN  /\ spans' = SetAttributes(st.spans, st.span,
                           <<StringKV("traceloop.span.kind", spanKindWorkflow),
                             StringKV("traceloop.entity.name", name),
                             StringKV("traceloop.workflow.name", name)>>)
           /\ ctxs' = Append(st.ctxs,
                             CtxNode(st.ctx, "workflowName", triageContext, 0, name))
           /\ lastSet' = Inherit(Inherit(lastSet, c), c)
           /\ hier' = Append(hier, HierSpan(spanKindWorkflow, st.span,
                                            Len(st.ctxs) + 1, name))
    /\ UNCHANGED <<heap, lifeVars, llms, globalCfg, panicked>>

(* StartTask, StartAgent and StartTool differ in the kind and in what    *)
(* they add for it (the agent: llm.agent.name).                          *)
StartChild(c, kind, name, extra) ==
    /\ Len(hier) < MaxHier
    /\ LET st == tracerStart(ctxs, heap, spans, pipelines, globalTP, c, name)
           wf == workflowNameFromContext(st.ctxs, st.ctx)
           attrs == <<StringKV("traceloop.span.kind", kind),
                      StringKV("traceloop.entity.name", name)>> \o extra
       IN  /\ spans' = SetAttributes(st.spans, st.span,
                           AppendIf(wf # "", attrs,
                                    StringKV("traceloop.workflow.name", wf)))
           /\ ctxs' = st.ctxs
           /\ lastSet' = Inherit(lastSet, c)
           /\ hier' = Append(hier, HierSpan(kind, st.span, st.ctx, name))
    /\ UNCHANGED <<heap, lifeVars, llms, globalCfg, panicked>>

StartTask(c, name) == StartChild(c, spanKindTask, name, <<>>)
StartAgent(c, name) ==
    StartChild(c, spanKindAgent, name, <<StringKV("llm.agent.name", name)>>)
StartTool(c, name) == StartChild(c, spanKindTool, name, <<>>)

(* End, mutated: the span is left running. *)
HierEndSpans_Never(sp, ps, hs) == sp

(* w.End(), t.End(), a.End(), t.End(): the four are the same code.  The  *)
(* receiver is tested for nil before its span is, so nothing is          *)
(* dereferenced on a nil receiver.                                       *)
HierEndSpans(sp, ps, hs) ==
    IF ~hs.nil /\ hs.span # 0 THEN EndSpan(sp, ps, hs.span) ELSE sp

HierEnd(h) ==
    /\ spans' = HierEndSpans(spans, pipelines, hier[h])
    /\ hier' = [hier EXCEPT ![h].ends = IF @ < 2 THEN @ + 1 ELSE @]
    /\ UNCHANGED <<ctxVars, lifeVars, llms, globalCfg, panicked>>

(* w.Context(): context.Background() for a nil receiver, else w.ctx. *)
HierContext(h) ==
    /\ ~hier[h].returned.called
    /\ hier' = [hier EXCEPT
                  ![h].returned = [called |-> TRUE, ctx |-> ContextOf(hier[h])]]
    /\ UNCHANGED <<ctxVars, spans, lifeVars, llms, globalCfg, panicked>>

NilHier(kind) ==
    /\ Len(hier) < MaxHier
    /\ hier' = Append(hier, NilHierSpan(kind))
    /\ UNCHANGED <<ctxVars, spans, lifeVars, llms, globalCfg, panicked>>

(* Any other instrumentation: a span started on the global provider and *)
(* left as started.                                                      *)
OtherStart(c, name) ==
    /\ Len(spans) < MaxSpans
    /\ LET st == tracerStart(ctxs, heap, spans, pipelines, globalTP, c, name)
       IN  /\ spans' = st.spans
           /\ ctxs' = st.ctxs
           /\ lastSet' = Inherit(lastSet, c)
    /\ UNCHANGED <<heap, lifeVars, llmVars>>

-----------------------------------------------------------------------------
(* Inputs of the annotation helpers. *)

Ids == {"", "a"}
UserOpts == {<<>>, <<UserRole("a")>>, <<UserRole("")>>}
TenantOpts == {<<>>, <<TenantName("a")>>}
SessionOpts ==
    {<<>>, <<TurnNumber(0)>>, <<TurnNumber(1), HistoryHash("a")>>,
     <<HistoryHash(""), TurnNumber(1)>>}
InputOpts == {<<>>, <<Sanitized("a")>>}
TemplateOpts == {<<>>, <<TemplateVersion("a")>>}
ACLInputs ==
    {NilSlice, Slice(<<>>), Slice(<<"c1", "c2">>), Slice(<<"c1", Unencodable>>)}

-----------------------------------------------------------------------------
(* The state before any call: only context.Background() exists. *)

NoEnv ==
    [TRIAGE_API_KEY |-> "", TRIAGE_ENDPOINT |-> "", TRIAGE_APP_NAME |-> "",
     TRIAGE_ENVIRONMENT |-> "", TRIAGE_ENABLED |-> "",
     TRIAGE_TRACE_CONTENT |-> "", args0 |-> "/usr/local/bin/agent"]

Envs ==
    {NoEnv,
     [NoEnv EXCEPT !.TRIAGE_API_KEY = "tsk_env", !.TRIAGE_TRACE_CONTENT = "FALSE"]}

Init ==
    /\ ctxs = <<CtxNode(0, "none", triageContext, 0, "")>>
    /\ heap = <<>>
    /\ lastSet = <<NeverSet>>
    /\ spans = <<>>
    /\ mu = 0
    /\ initialized = FALSE
    /\ provider = 0
    /\ activeConfig = NilConfig
    /\ pipelines = <<>>
    /\ globalTP = 0
    /\ pc = [g \in Goroutines |-> "idle"]
    /\ local = [g \in Goroutines |-> NoLocals]
    /\ ret = [g \in Goroutines |-> NothingReturned]
    /\ llms = <<>>
    /\ hier = <<>>
    /\ globalCfg = NilConfig
    /\ panicked = FALSE

(* Annotation helpers alone, on contexts that carry no span. *)
NextCtx ==
    \/ \E c \in DOMAIN ctxs, id \in Str, opts \in UserOpts : WithUser(c, id, opts)
    \/ \E c \in DOMAIN ctxs, id \in Ids, opts \in TenantOpts : WithTenant(c, id, opts)
    \/ \E c \in DOMAIN ctxs, id \in Str, opts \in SessionOpts : WithSession(c, id, opts)
    \/ \E c \in DOMAIN ctxs, raw \in Ids, opts \in InputOpts : WithInput(c, raw, opts)
    \/ \E c \in DOMAIN ctxs, id \in Ids, opts \in TemplateOpts : WithTemplate(c, id, opts)
    \/ \E c \in DOMAIN ctxs, acls \in ACLInputs : WithChunkACLs(c, acls)

SpecCtx == Init /\ [][NextCtx]_vars

(* Init, Shutdown and the returned funcs, called from several goroutines. *)
InitOpts ==
    {<<>>, <<WithAPIKey("tsk_a")>>, <<WithAPIKey("tsk_a"), WithEnabled(FALSE)>>}
Infra == {"ok", "exporter", "resource"}
FlushErrs == {NilErr, "context deadline exceeded"}

NextLife ==
    \/ \E g \in Goroutines : InitLock(g)
    \/ \E g \in Goroutines, e \in {NoEnv}, opts \in InitOpts, infra \in Infra :
          InitCheck(g, e, opts, infra)
    \/ \E g \in Goroutines : InitInstall(g)
    \/ \E g \in Goroutines : ShutdownLock(g)
    \/ \E g \in Goroutines : CallHandle(g)
    \/ \E g \in Goroutines : ShutdownCheck(g)
    \/ \E g \in Goroutines, e \in FlushErrs : ShutdownFlush(g, e)

SpecLife == Init /\ [][NextLife]_vars

-----
(* Vocabulary of the properties. *)

FieldKey(f) ==
    CASE f = "userID" -> AttrUserID
      [] f = "userRole" -> AttrUserRole
      [] f = "tenantID" -> AttrTenantID
      [] f = "tenantName" -> AttrTenantName
      [] f = "sessionID" -> AttrSessionID
      [] f = "sessionTurnNumber" -> AttrSessionTurn
      [] f = "sessionHistoryHash" -> AttrSessionHash
      [] f = "inputRaw" -> AttrInputRaw
      [] f = "inputSanitized" -> AttrInputSanitized
      [] f = "templateID" -> AttrTemplateID
      [] f = "templateVersion" -> AttrTemplateVersion
      [] f = "chunkACLs" -> AttrChunkACLs

Projection(c) == getTriageAttrs(ctxs, heap, c)
Has(attrs, kv) == \E i \in DOMAIN attrs : attrs[i] = kv
HasKey(attrs, k) == \E i \in DOMAIN attrs : attrs[i].key = k

-----------------------------------------------------------------------------
(* C1: no lost update.  In every context reached by any chain of           *)
(* annotation helpers, each field holds the value written by the last call *)
(* of the chain that wrote it, and when that value is non-empty (the turn  *)
(* number: whenever it was written) the projection of the context carries  *)
(* it under the field's key.                                               *)
C1_NoLostUpdate ==
    \A c \in DOMAIN ctxs :
        LET tc == getFromContext(ctxs, c)
            w == lastSet[c]
        IN  /\ \A f \in StringFields :
                   w[f] # Unset =>
                       /\ tc[f] = w[f]
                       /\ w[f] # "" => Has(Projection(c), StringKV(FieldKey(f), w[f]))
            /\ w.sessionTurnNumber # NoTurn =>
                   /\ tc.sessionTurnNumber # 0
                   /\ heap[tc.sessionTurnNumber] = w.sessionTurnNumber.n
                   /\ Has(Projection(c), IntKV(AttrSessionTurn, w.sessionTurnNumber.n))

(* A second-hop context whose call rewrote the user id and left the role   *)
(* written one hop earlier in place.                                       *)
C1_Witness ==
    \E c \in DOMAIN ctxs :
        LET p == ctxs[c].parent
        IN  /\ p > Background
            /\ lastSet[p].userRole = "a"
            /\ lastSet[p].userID = "a"
            /\ lastSet[c].userID = "b"
            /\ Has(Projection(c), StringKV(AttrUserID, "b"))
            /\ Has(Projection(c), StringKV(AttrUserRole, "a"))

-----------------------------------------------------------------------------
(* C2: a derivation changes the projection of no context that existed      *)
(* before it (its parent, its siblings, any other branch), the turn number *)
(* included.                                                               *)
C2_DerivationIsolated ==
    [][\A c \in DOMAIN ctxs :
           getTriageAttrs(ctxs, heap, c)' = getTriageAttrs(ctxs, heap, c)]_vars

(* A child that overrode its parent's turn number and session id while the *)
(* parent still projects its own.                                          *)
C2_Witness ==
    \E c \in DOMAIN ctxs :
        LET p == ctxs[c].parent
        IN  /\ p > Background
            /\ Has(Projection(p), IntKV(AttrSessionTurn, 0))
            /\ Has(Projection(p), StringKV(AttrSessionID, "a"))
            /\ Has(Projection(c), IntKV(AttrSessionTurn, 1))
            /\ Has(Projection(c), StringKV(AttrSessionID, "b"))

-----------------------------------------------------------------------------
(* C10: the projection has exactly one attribute, under the field's fixed  *)
(* key and with the field's value, for each set field (non-empty string,   *)
(* non-nil turn number), nothing for an unset field and nothing else; the  *)
(* projection of a context without annotations is empty.                   *)
C10_ProjectionExact ==
    \A c \in DOMAIN ctxs :
        LET tc == getFromContext(ctxs, c)
            proj == Projection(c)
            setFields == {f \in StringFields : tc[f] # ""}
                         \cup (IF tc.sessionTurnNumber # 0
                               THEN {"sessionTurnNumber"} ELSE {})
        IN  /\ \A f \in StringFields :
                   IF tc[f] # ""
                   THEN Has(proj, StringKV(FieldKey(f), tc[f]))
                   ELSE ~HasKey(proj, FieldKey(f))
            /\ IF tc.sessionTurnNumber # 0
               THEN Has(proj, IntKV(AttrSessionTurn, heap[tc.sessionTurnNumber]))
               ELSE ~HasKey(proj, AttrSessionTurn)
            /\ \A i \in DOMAIN proj : proj[i].key \in TriageKeys
            /\ Len(proj) = Cardinality(setFields)
            /\ (tc = triageContext => proj = <<>>)

(* A context with a user id and no role (one set, one unset field of the   *)
(* same helper) next to the empty Background.                              *)
C10_Witness ==
    /\ Projection(Background) = <<>>
    /\ \E c \in DOMAIN ctxs :
           /\ getFromContext(ctxs, c).userID = "a"
           /\ getFromContext(ctxs, c).userRole = ""
           /\ getFromContext(ctxs, c).sessionTurnNumber # 0
           /\ Len(Projection(c)) = 2

(* LLM calls of both files, from one goroutine, while another goroutine  *)
(* initializes and shuts down the SDK.                                    *)
PromptInputs ==
    {PromptParams("openai", "gpt-4o", <<Message("user", "hi", <<>>)>>,
                  <<ToolDefinition("search", "finds", Slice(<<"c1">>))>>,
                  NilFloat, NilFloat, NilInt, <<>>),
     PromptParams("", "",
                  <<Message("assistant", "",
                            <<ToolCall("id1", "function", "search", "{}")>>)>>,
                  <<ToolDefinition("t", "", NilAny)>>,
                  FloatPtr("0.7"), FloatPtr("0.9"), IntPtr(16), <<"END">>)}

CompletionInputs ==
    {CompletionParams("gpt-4o", <<Message("assistant", "hello", <<>>)>>,
                      Usage(10, 5, 15, 0, 0, 0), "stop"),
     CompletionParams("", <<>>, Usage(0, 0, 0, 1, 2, 3), "")}

Prompt2Inputs ==
    {Prompt("openai", "gpt-4o", <<Message2("user", "hi", <<>>, "")>>,
            <<ToolDef("function", ToolFunction("search", "finds", Slice(<<"c1">>)))>>,
            0, NilFloat, NilFloat, NilFloat, NilFloat, <<>>),
     Prompt("", "",
            <<Message2("tool", "",
                       <<ToolCall2("id1", "function", ToolCallFunction("search", "{}"))>>,
                       "id1")>>,
            <<ToolDef("", ToolFunction("", "", Slice(<<Unencodable>>)))>>,
            16, FloatPtr("0.7"), NilFloat, FloatPtr("0.1"), NilFloat, <<"END">>)}

Completion2Inputs ==
    {<<Completion("gpt-4o", <<Message2("assistant", "hello", <<>>, "")>>),
       Usage2(5, 5, 10)>>,
     <<Completion("", <<>>), Usage2(0, 0, 0)>>}

(* The errors handed to SetError; "nil" is the nil error. *)
Errs == {"nil", "boom", "bust"}

(* &config{traceContent: b} *)
ConfigLiteral(b) ==
    [apiKey |-> "", endpoint |-> "", appName |-> "", environment |-> "",
     enabled |-> FALSE, traceContent |-> b]

LLMInitOpts ==
    {<<WithAPIKey("tsk_a")>>, <<WithAPIKey("tsk_a"), WithTraceContent(FALSE)>>}

(* The calls on an LLMSpan in every order, with one request per file,    *)
(* while goroutine 1 initializes the SDK and shuts it down.              *)
FullPrompt == CHOOSE params \in PromptInputs : params.vendor = "openai"
FullPrompt2 == CHOOSE prompt \in Prompt2Inputs : prompt.vendor = "openai"
FullCompletion2 == CHOOSE cu \in Completion2Inputs : cu[1].model = "gpt-4o"

NextLLM ==
    \/ pipelines = <<>> /\ InitLock(1)
    \/ InitCheck(1, NoEnv, <<WithAPIKey("tsk_a")>>, "ok")
    \/ InitInstall(1)
    \/ initialized /\ ShutdownLock(1)
    \/ ShutdownCheck(1)
    \/ ShutdownFlush(1, NilErr)
    \/ \E c \in Held : LogPrompt(c, FullPrompt)
    \/ LogPromptContent
    \/ LogPromptReturn
    \/ \E l \in DOMAIN llms, params \in CompletionInputs : LogCompletion(l, params)
    \/ LogCompletionContent
    \/ LogCompletionEnd
    \/ \E l \in DOMAIN llms : End(l)
    \/ \E l \in DOMAIN llms, err \in Errs : SetError(l, err)
    \/ \E c \in Held : LogPrompt2(c, FullPrompt2)
    \/ \E l \in DOMAIN llms : LogCompletion2(l, FullCompletion2[1], FullCompletion2[2])

SpecLLM == Init /\ [][NextLLM]_vars

(* LogPrompt and LogCompletion of both files under every setting of the  *)
(* content switch: Init with and without WithTraceContent(false),        *)
(* Shutdown, and globalCfg nil or with traceContent false.               *)
NextContent ==
    \/ pipelines = <<>> /\ InitLock(1)
    \/ \E opts \in LLMInitOpts : InitCheck(1, NoEnv, opts, "ok")
    \/ InitInstall(1)
    \/ initialized /\ ShutdownLock(1)
    \/ ShutdownCheck(1)
    \/ ShutdownFlush(1, NilErr)
    \/ \E cfg \in {NilConfig, ConfigLiteral(FALSE)} : StoreGlobalCfg(cfg)
    \/ \E params \in PromptInputs : LogPrompt(Background, params)
    \/ LogPromptContent
    \/ LogPromptReturn
    \/ \E l \in DOMAIN llms, params \in CompletionInputs : LogCompletion(l, params)
    \/ LogCompletionContent
    \/ LogCompletionEnd
    \/ \E prompt \in Prompt2Inputs : LogPrompt2(Background, prompt)
    \/ \E l \in DOMAIN llms, cu \in Completion2Inputs : LogCompletion2(l, cu[1], cu[2])

SpecContent == Init /\ [][NextContent]_vars

(* Spans started by every kind of caller along one chain of contexts    *)
(* (each call is given the context the one before returned, or the       *)
(* background context), before and after one Init installs the pipeline. *)
Latest == CHOOSE c \in Held : \A d \in Held : d <= c

NextSpan ==
    \/ pipelines = <<>> /\ InitLock(1)
    \/ InitCheck(1, NoEnv, <<WithAPIKey("tsk_a")>>, "ok")
    \/ InitInstall(1)
    \/ WithUser(Latest, "a", <<>>)
    \/ WithSession(Latest, "a", <<TurnNumber(0)>>)
    \/ LogPrompt(Latest, FullPrompt)
    \/ LogPromptContent
    \/ LogPromptReturn
    \/ LogPrompt2(Latest, FullPrompt2)
    \/ Len(spans) < MaxSpans /\ StartWorkflow(Latest, "wf")
    \/ Len(spans) < MaxSpans /\ StartTask(Latest, "task")
    \/ Len(spans) < MaxSpans /\ StartAgent(Latest, "agent")
    \/ Len(spans) < MaxSpans /\ StartTool(Latest, "tool")
    \/ \E c \in {Background, Latest} : OtherStart(c, "http")

SpecSpan == Init /\ [][NextSpan]_vars

-----------------------------------------------------------------------------
(* Lifecycle properties. *)

Active == {p \in DOMAIN pipelines : pipelines[p].state = "active"}

lifeState == <<initialized, provider, activeConfig, pipelines, globalTP>>

(* C5: an Init that runs while the SDK is initialized returns the inert  *)
(* func and a nil error, builds no pipeline and leaves initialized, the  *)
(* provider and the active configuration as the first Init set them; and *)
(* calling the inert func leaves the first pipeline running.             *)
C5_DoubleInitIsNoop ==
    [][\A g \in Goroutines :
         /\ (pc[g] = "Init:locked" /\ initialized /\ pc'[g] # pc[g])
                => /\ pc'[g] = "idle"
                   /\ ret'[g] = Returned("already", "noop", NilErr, 0)
                   /\ initialized'
                   /\ UNCHANGED lifeState
         /\ (ret[g].path = "already" /\ ~ret[g].called /\ ret'[g].called)
                => /\ pc'[g] = "idle"
                   /\ mu' = mu
                   /\ UNCHANGED lifeState]_vars

C5_Witness ==
    \E g \in Goroutines :
        /\ ret[g].path = "already"
        /\ ret[g].called
        /\ initialized
        /\ Len(pipelines) = 1
        /\ provider = 1
        /\ pipelines[1].state = "active"
        /\ activeConfig = pipelines[1].cfg

(* C6: whatever the interleaving of Init and Shutdown calls, at most one *)
(* pipeline is active; a goroutine builds one only while it holds mu and *)
(* has seen initialized false, so no two goroutines build one at once,   *)
(* and the pipeline that is active is the one the SDK state names.       *)
C6_AtMostOnePipeline ==
    /\ Cardinality(Active) <= 1
    /\ \A g \in Goroutines :
           pc[g] = "Init:install" => mu = g /\ ~initialized /\ Active = {}
    /\ \A g \in Goroutines : pc[g] # "idle" => mu = g
    /\ initialized => provider # 0 /\ Active = {provider}
    /\ ~initialized => Active = {}

C6_Witness ==
    /\ Len(pipelines) = 2
    /\ pipelines[1].state = "shutdown"
    /\ pipelines[2].state = "active"
    /\ \E g, h \in Goroutines :
           /\ g # h
           /\ ret[g].created = 1
           /\ ret[h].created = 2
           /\ ret[g].spath = "skipped"

(* C7: a Shutdown that finds the SDK not initialized returns nil and     *)
(* changes nothing, so any run of Shutdown calls leaves the state the    *)
(* first of them left.                                                   *)
C7_ShutdownIdempotent ==
    [][\A g \in Goroutines :
         (pc[g] = "Shutdown:locked" /\ ~initialized /\ pc'[g] # pc[g])
            => /\ pc'[g] = "idle"
               /\ ret'[g].spath = "skipped"
               /\ ~local[g].closure => ret'[g].shutdownErr = NilErr
               /\ local[g].closure => ret'[g].logged = ret[g].logged
               /\ UNCHANGED lifeState]_vars

C7_Witness ==
    \E g \in Goroutines :
        /\ ret[g].spath = "skipped"
        /\ ret[g].shutdownErr = NilErr
        /\ ~initialized
        /\ Len(pipelines) = 1
        /\ pipelines[1].state = "shutdown"
        /\ ret[g].created = 1

-----------------------------------------------------------------------------
(* LLM span properties. *)

SpanOf(l) == spans[llms[l].span]

(* C3: for an LLMSpan returned by LogPrompt, once LogCompletion or End   *)
(* has been called the span is ended, and not before; it is handed to    *)
(* the exporter once, never twice (and exactly once when its pipeline is *)
(* still running); and no call made on a span that has ended changes its *)
(* attributes, status, events, end or export.                            *)
C3_EndedExactlyOnce ==
    /\ [](\A l \in DOMAIN llms :
            SpanOf(l).recording =>
                /\ SpanOf(l).ended <=> llms[l].closed
                /\ SpanOf(l).exported <= 1
                /\ ~SpanOf(l).ended => SpanOf(l).exported = 0
                /\ (SpanOf(l).ended /\ Live(pipelines, SpanOf(l).pipeline))
                       => SpanOf(l).exported = 1)
    /\ [][\A sid \in DOMAIN spans : spans[sid].ended => spans'[sid] = spans[sid]]_vars

C3_Witness ==
    /\ \E l \in DOMAIN llms :
           /\ llms[l].file = "llm.go"
           /\ llms[l].closed
           /\ llms[l].late
           /\ llms[l].completion = NoCompletion
           /\ SpanOf(l).ended
           /\ SpanOf(l).exported = 1
           /\ SpanOf(l).status = NoStatus
    /\ panicked

(* The attribute keys of message content and of tool definitions, in    *)
(* the key schemes of both files.                                         *)
Indexes == {"0", "1", "2"}

MessageKeys(scheme) ==
    UNION {{scheme \o "." \o i \o ".role", scheme \o "." \o i \o ".content",
            scheme \o "." \o i \o ".tool_call_id"}
           \cup UNION {{scheme \o "." \o i \o ".tool_calls." \o j \o f :
                          f \in {".id", ".type", ".name", ".arguments",
                                 ".function.name", ".function.arguments"}} :
                       j \in Indexes} :
           i \in Indexes}

ToolDefinitionKeys ==
    UNION {{"gen_ai.request.tools." \o i \o f :
              f \in {".name", ".description", ".parameters"}}
           \cup {"gen_ai.request.tool." \o i \o f :
                   f \in {".type", ".function.name", ".function.description",
                          ".function.parameters"}} :
           i \in Indexes}

(* The content switch as a configuration sets it: off only when there  *)
(* is a configuration and its traceContent is false.                    *)
Off(cfg) == cfg # NilConfig /\ ~cfg.traceContent

Carries2(attrs, kv) == kv.key \in DOMAIN attrs /\ attrs[kv.key] = kv
Keys(l) == DOMAIN SpanOf(l).attrs
Carries(l, kv) == Carries2(SpanOf(l).attrs, kv)

(* The LLMSpans whose span is a real one, by the file that made them. *)
Recorded(file) ==
    {l \in DOMAIN llms : llms[l].file = file /\ SpanOf(l).recording}

(* Vendor, model and usage as each file records them: llm.go the values  *)
(* that are not empty or zero, part_001 every value.                     *)
RequestRecorded(l) ==
    LET r == llms[l].params
    IN  IF llms[l].file = "llm.go"
        THEN /\ r.vendor # "" => Carries(l, StringKV("gen_ai.system", r.vendor))
             /\ r.model # "" => Carries(l, StringKV("gen_ai.request.model", r.model))
        ELSE /\ Carries(l, StringKV("gen_ai.system", r.vendor))
             /\ Carries(l, StringKV("gen_ai.request.model", r.model))

UsageRecorded(l) ==
    LET c == llms[l].completion
    IN  IF llms[l].file = "llm.go"
        THEN /\ c.usage.inputTokens > 0
                  => Carries(l, IntKV("gen_ai.usage.input_tokens", c.usage.inputTokens))
             /\ c.usage.outputTokens > 0
                  => Carries(l, IntKV("gen_ai.usage.output_tokens", c.usage.outputTokens))
             /\ c.usage.totalTokens > 0
                  => Carries(l, IntKV("gen_ai.usage.total_tokens", c.usage.totalTokens))
             /\ c.model # "" => Carries(l, StringKV("gen_ai.response.model", c.model))
        ELSE /\ Carries(l, IntKV("gen_ai.usage.input_tokens", c.usage.promptTokens))
             /\ Carries(l, IntKV("gen_ai.usage.output_tokens",
                                 c.usage.completionTokens))
             /\ c.completion.model # ""
                  => Carries(l, StringKV("gen_ai.response.model", c.completion.model))

(* What C8 says of messages, vendor, model and usage, for one LLMSpan:   *)
(* with the switch off at LogPrompt no prompt message attribute, with it *)
(* off at LogCompletion no completion message attribute, and the request *)
(* and usage attributes recorded all the same.                           *)
ContentWithheld(l) ==
    /\ Off(llms[l].cfg) =>
           /\ Keys(l) \cap MessageKeys("gen_ai.prompt") = {}
           /\ RequestRecorded(l)
    /\ (llms[l].completion # NoCompletion /\ Off(llms[l].completionCfg)) =>
           /\ Keys(l) \cap MessageKeys("gen_ai.completion") = {}
           /\ UsageRecorded(l)

(* C8 as stated: with the content switch off, no message attribute and   *)
(* no tool definition attribute on the span of either LogPrompt, vendor, *)
(* model and usage recorded.                                             *)
C8_Original ==
    \A l \in Recorded("llm.go") \cup Recorded("part_001") :
        /\ ContentWithheld(l)
        /\ Off(llms[l].cfg) => Keys(l) \cap ToolDefinitionKeys = {}

(* C8, amended: with the content switch off, the span carries no message *)
(* role, content or tool call attribute, and vendor, model and usage are *)
(* recorded; it carries no tool definition attribute when llm.go's       *)
(* LogPrompt made it, while part_001's LogPrompt records the type and    *)
(* function name of every tool of the request all the same.              *)
C8_ContentWithheld ==
    /\ \A l \in Recorded("llm.go") :
           /\ ContentWithheld(l)
           /\ Off(llms[l].cfg) => Keys(l) \cap ToolDefinitionKeys = {}
    /\ \A l \in Recorded("part_001") :
           /\ ContentWithheld(l)
           /\ Off(llms[l].cfg) =>
                  \A i \in DOMAIN llms[l].params.tools :
                      {"gen_ai.request.tool." \o ToString(i - 1) \o ".type",
                       "gen_ai.request.tool." \o ToString(i - 1) \o ".function.name"}
                          \subseteq Keys(l)

C8_Witness ==
    /\ \E l \in Recorded("llm.go") :
           /\ Off(llms[l].cfg)
           /\ llms[l].params.vendor = "openai"
           /\ llms[l].params.tools # <<>>
           /\ llms[l].completion # NoCompletion
           /\ Off(llms[l].completionCfg)
           /\ llms[l].completion.usage.inputTokens = 10
           /\ SpanOf(l).ended
    /\ activeConfig # NilConfig
    /\ ~activeConfig.traceContent

(* The tool definitions of the request are on the span: per tool index,  *)
(* the name and description (when not empty; part_001: the type and the  *)
(* name always) and the parameters as JSON (when there are parameters    *)
(* and they can be encoded).                                             *)
ToolDefinitionsRecorded(l) ==
    \A i \in DOMAIN llms[l].params.tools :
        LET tool == llms[l].params.tools[i]
        IN  IF llms[l].file = "llm.go"
            THEN LET p == "gen_ai.request.tools." \o ToString(i - 1)
                 IN  /\ tool.name # "" => Carries(l, StringKV(p \o ".name", tool.name))
                     /\ tool.description # ""
                          => Carries(l, StringKV(p \o ".description", tool.description))
                     /\ (tool.parameters # NilAny /\ ~jsonMarshal(tool.parameters).err)
                          => Carries(l, StringKV(p \o ".parameters",
                                                 jsonMarshal(tool.parameters).data))
            ELSE LET p == "gen_ai.request.tool." \o ToString(i - 1)
                     f == tool.function
                 IN  /\ Carries(l, StringKV(p \o ".type", tool.type))
                     /\ Carries(l, StringKV(p \o ".function.name", f.name))
                     /\ f.description # ""
                          => Carries(l, StringKV(p \o ".function.description",
                                                 f.description))
                     /\ (f.parameters # NilAny /\ ~jsonMarshal(f.parameters).err)
                          => Carries(l, StringKV(p \o ".function.parameters",
                                                 jsonMarshal(f.parameters).data))

(* C9 as stated: either LogPrompt records the tool definitions whether   *)
(* the content switch is on or off.                                      *)
C9_Original ==
    \A l \in Recorded("llm.go") \cup Recorded("part_001") : ToolDefinitionsRecorded(l)

(* C9, amended: part_001's LogPrompt records the tool definitions of the *)
(* request whether the content switch is on or off; llm.go's LogPrompt   *)
(* records them when the switch is on and none of them when it is off.   *)
C9_ToolDefinitions ==
    /\ \A l \in Recorded("part_001") : ToolDefinitionsRecorded(l)
    /\ \A l \in Recorded("llm.go") :
           IF Off(llms[l].cfg)
           THEN Keys(l) \cap ToolDefinitionKeys = {}
           ELSE ToolDefinitionsRecorded(l)

C9_Witness ==
    \E l \in Recorded("part_001") :
        /\ Off(llms[l].cfg)
        /\ llms[l].params.tools # <<>>
        /\ llms[l].params.tools[1].function.name = "search"
        /\ Carries(l, StringKV("gen_ai.request.tool.0.function.parameters",
                               "[{\"chunk_id\":\"c1\"}]"))
        /\ globalCfg = ConfigLiteral(FALSE)

-----------------------------------------------------------------------------
(* C4: every span started on the provider that has the triage span       *)
(* processor carries, when Start returns, exactly the projection of the  *)
(* triageContext of the context it was started with (nothing under a     *)
(* triage key when the projection is empty), whoever started it; and the *)
(* contexts the span wrappers return have the projection of the context  *)
(* they were given, so spans started from them carry it as well.         *)
C4_StampedAtStart ==
    /\ \A sid \in DOMAIN spans :
           spans[sid].recording =>
               LET proj == Projection(spans[sid].startCtx)
               IN  /\ DOMAIN spans[sid].atStart = {proj[i].key : i \in DOMAIN proj}
                   /\ \A i \in DOMAIN proj : spans[sid].atStart[proj[i].key] = proj[i]
                   /\ proj = <<>> => DOMAIN spans[sid].atStart \cap TriageKeys = {}
    /\ \A c \in DOMAIN ctxs :
           ctxs[c].key \in {"span", "workflowName"}
               => Projection(c) = Projection(ctxs[c].parent)

C4_Witness ==
    \E s1, s2 \in DOMAIN spans :
        /\ spans[s1].recording
        /\ spans[s2].recording
        /\ ctxs[spans[s1].startCtx].key = "triageContext"
        /\ Carries2(spans[s1].atStart, StringKV(AttrUserID, "a"))
        /\ Carries2(spans[s1].atStart, IntKV(AttrSessionTurn, 0))
        /\ ctxs[spans[s2].startCtx].key = "workflowName"
        /\ spans[s2].parent = s1
        /\ spans[s2].atStart = spans[s1].atStart
        /\ \E l \in DOMAIN llms : llms[l].span = s2

-----------------------------------------------------------------------------
(* C11: a context on whose chain TurnNumber(0) was the last turn number  *)
(* written (by its own call or by an ancestor's, later calls not setting *)
(* it) projects triage.session.turn_number = 0, and a context on whose   *)
(* chain no turn number was ever written projects no                      *)
(* triage.session.turn_number attribute: the two projections differ.     *)
C11_TurnZeroDistinct ==
    \A c \in DOMAIN ctxs :
        /\ lastSet[c].sessionTurnNumber = Turn(0)
               => /\ Has(Projection(c), IntKV(AttrSessionTurn, 0))
                  /\ getFromContext(ctxs, c).sessionTurnNumber # 0
        /\ lastSet[c].sessionTurnNumber = NoTurn
               => /\ ~HasKey(Projection(c), AttrSessionTurn)
                  /\ getFromContext(ctxs, c).sessionTurnNumber = 0
        /\ \A d \in DOMAIN ctxs :
               (/\ lastSet[c].sessionTurnNumber = Turn(0)
                /\ lastSet[d].sessionTurnNumber = NoTurn)
                   => Projection(c) # Projection(d)

(* TurnNumber(0) set one hop up, a later WithSession that sets no turn   *)
(* number, and next to them the never-annotated Background.              *)
C11_Witness ==
    \E c \in DOMAIN ctxs :
        LET p == ctxs[c].parent
        IN  /\ p > Background
            /\ lastSet[p].sessionTurnNumber = Turn(0)
            /\ lastSet[p].sessionID = "a"
            /\ lastSet[c].sessionID = "b"
            /\ Has(Projection(c), IntKV(AttrSessionTurn, 0))
            /\ Has(Projection(c), StringKV(AttrSessionID, "b"))
            /\ ~HasKey(Projection(Background), AttrSessionTurn)

-----------------------------------------------------------------------------
(* Calls on LLMSpans that LogPrompt did not open (the zero value and the *)
(* nil pointer, of either file) and on one it did, before and after the  *)
(* SDK is initialized.                                                    *)
Files == {"llm.go", "part_001"}

NextUnopened ==
    \/ pipelines = <<>> /\ InitLock(1)
    \/ InitCheck(1, NoEnv, <<WithAPIKey("tsk_a")>>, "ok")
    \/ InitInstall(1)
    \/ \E file \in Files : ZeroValue(file)
    \/ \E file \in Files : NilPointer(file)
    \/ LogPrompt(Background, FullPrompt)
    \/ LogPromptContent
    \/ LogPromptReturn
    \/ LogPrompt2(Background, FullPrompt2)
    \/ \E l \in DOMAIN llms, params \in CompletionInputs : LogCompletion(l, params)
    \/ LogCompletionContent
    \/ LogCompletionEnd
    \/ \E l \in DOMAIN llms : End(l)
    \/ \E l \in DOMAIN llms, err \in Errs : SetError(l, err)
    \/ \E l \in DOMAIN llms : LogCompletion2(l, FullCompletion2[1], FullCompletion2[2])
    \/ \E l \in DOMAIN llms : Context(l)

SpecUnopened == Init /\ [][NextUnopened]_vars

Unopened(ls) == ls.nil \/ ls.span = 0

(* C12: while the only LLMSpans the program holds are unopened ones     *)
(* (the nil pointer or the zero value), whatever calls of LogCompletion, *)
(* SetError, End and Context were made on them, no call has panicked and *)
(* no span exists (none created, none ended, nothing recorded); and      *)
(* Context() on a nil LLMSpan returned a context that is not nil.        *)
C12_UnopenedSafe ==
    (llms # <<>> /\ \A l \in DOMAIN llms : Unopened(llms[l]))
        => /\ ~panicked
           /\ spans = <<>>
           /\ \A l \in DOMAIN llms :
                  (llms[l].nil /\ llms[l].returned.called)
                      => llms[l].returned.ctx # 0

-----------------------------------------------------------------------------
(* C13: on an open LLMSpan of a live pipeline, SetError with an error    *)
(* records an error event and sets the status to Error with the error's  *)
(* message (the last one given), and the step ends nothing and exports   *)
(* nothing; the span is exported only once LogCompletion or End was      *)
(* called, and the exported span carries the Error status.               *)
C13_SetErrorDoesNotEnd ==
    /\ [](\A l \in DOMAIN llms :
            (/\ llms[l].file = "llm.go"
             /\ SpanOf(l).recording
             /\ llms[l].lastErr \notin {"", "nil"})
                => /\ SpanOf(l).status =
                          [code |-> "Error", description |-> llms[l].lastErr]
                   /\ SpanOf(l).events >= 1
                   /\ ~llms[l].closed => ~SpanOf(l).ended /\ SpanOf(l).exported = 0)
    /\ [][\A l \in DOMAIN llms :
             (\/ llms'[l].lastErr # llms[l].lastErr
              \/ spans'[llms[l].span].events # SpanOf(l).events)
                => /\ spans'[llms[l].span].ended = SpanOf(l).ended
                   /\ spans'[llms[l].span].exported = SpanOf(l).exported]_vars

(* Two errors set on an open span, then End: the span went out once with *)
(* the status of the second error.                                        *)
C13_Witness ==
    \E l \in DOMAIN llms :
        /\ llms[l].lastErr = "bust"
        /\ llms[l].closed
        /\ llms[l].completion = NoCompletion
        /\ SpanOf(l).ended
        /\ SpanOf(l).exported = 1
        /\ SpanOf(l).events = 2
        /\ SpanOf(l).status = [code |-> "Error", description |-> "bust"]

-----------------------------------------------------------------------------
(* The span hierarchy along one chain of contexts: workflows (named,     *)
(* nested, or with the empty name), tasks, agents and tools, with LLM    *)
(* calls between them and annotation calls on the contexts the LLM calls *)
(* return; a task may also start from the background context.  Init     *)
(* runs before the first span or not at all.                              *)
WorkflowNames == {"wf", "w2", ""}

Idle == pc[1] = "idle"

NextFlow ==
    \/ spans = <<>> /\ pipelines = <<>> /\ InitLock(1)
    \/ InitCheck(1, NoEnv, <<WithAPIKey("tsk_a")>>, "ok")
    \/ InitInstall(1)
    \/ \E name \in WorkflowNames : Idle /\ StartWorkflow(Latest, name)
    \/ \E c \in {Background, Latest} : Idle /\ StartTask(c, "task")
    \/ Idle /\ StartAgent(Latest, "agent")
    \/ Idle /\ StartTool(Latest, "tool")
    \/ Idle /\ LogPrompt(Latest, FullPrompt)
    \/ LogPromptContent
    \/ LogPromptReturn
    \/ llms # <<>> /\ Latest = llms[Len(llms)].ctx /\ WithUser(Latest, "a", <<>>)

SpecFlow == Init /\ [][NextFlow]_vars

IsWorkflowSpan(sid) ==
    \E h \in DOMAIN hier : hier[h].span = sid /\ hier[h].kind = spanKindWorkflow

(* The nearest workflow span at or above span sid, 0 when there is none. *)
RECURSIVE EnclosingWorkflow(_)
EnclosingWorkflow(sid) ==
    IF sid = 0 THEN 0
    ELSE IF IsWorkflowSpan(sid) THEN sid
    ELSE EnclosingWorkflow(spans[sid].parent)

(* The recorded task, agent and tool spans. *)
ChildSpans ==
    {hier[h].span : h \in {i \in DOMAIN hier : hier[i].kind # spanKindWorkflow}}
        \cap {sid \in DOMAIN spans : spans[sid].recording}

WorkflowNameOf(sid) == spans[EnclosingWorkflow(spans[sid].parent)].name

(* C14 as stated: a task, agent or tool span under a workflow carries    *)
(* traceloop.workflow.name with the name of the nearest enclosing        *)
(* workflow, and one under no workflow carries no such attribute.        *)
C14_Original ==
    \A sid \in ChildSpans :
        IF EnclosingWorkflow(spans[sid].parent) # 0
        THEN /\ "traceloop.workflow.name" \in DOMAIN spans[sid].attrs
             /\ spans[sid].attrs["traceloop.workflow.name"] =
                    StringKV("traceloop.workflow.name", WorkflowNameOf(sid))
        ELSE "traceloop.workflow.name" \notin DOMAIN spans[sid].attrs

(* C14, amended: a task, agent or tool span whose nearest enclosing      *)
(* workflow has a name that is not empty carries traceloop.workflow.name *)
(* with that name, through any hierarchy spans, LLM spans and annotation *)
(* calls in between; one with no enclosing workflow, or whose nearest    *)
(* enclosing workflow has the empty name (even inside a named one),      *)
(* carries no traceloop.workflow.name attribute.                         *)
C14_WorkflowName ==
    \A sid \in ChildSpans :
        IF /\ EnclosingWorkflow(spans[sid].parent) # 0
           /\ WorkflowNameOf(sid) # ""
        THEN /\ "traceloop.workflow.name" \in DOMAIN spans[sid].attrs
             /\ spans[sid].attrs["traceloop.workflow.name"] =
                    StringKV("traceloop.workflow.name", WorkflowNameOf(sid))
        ELSE "traceloop.workflow.name" \notin DOMAIN spans[sid].attrs

(* A tool under workflow w2 under an annotated LLM call under workflow   *)
(* wf carries w2, not wf.                                                 *)
C14_Witness ==
    \E sid \in ChildSpans, l \in DOMAIN llms :
        LET w2 == spans[sid].parent
        IN  /\ w2 # 0
            /\ IsWorkflowSpan(w2)
            /\ spans[w2].name = "w2"
            /\ spans[w2].parent = llms[l].span
            /\ ctxs[spans[w2].startCtx].key = "triageContext"
            /\ SpanOf(l).parent # 0
            /\ spans[SpanOf(l).parent].name = "wf"
            /\ spans[sid].attrs["traceloop.workflow.name"].s = "w2"

-----------------------------------------------------------------------------
(* The API key the three layers resolve to: the argument of the last     *)
(* WithAPIKey option when there is one, else TRIAGE_API_KEY, else empty. *)
RECURSIVE ResolvedKey(_, _)
ResolvedKey(e, opts) ==
    IF opts = <<>> THEN e[EnvAPIKey]
    ELSE IF opts[Len(opts)].opt = "WithAPIKey" THEN opts[Len(opts)].s
    ELSE ResolvedKey(e, SubSeq(opts, 1, Len(opts) - 1))

KeyOpts ==
    InitOpts \cup {<<WithAPIKey("")>>, <<WithAPIKey("tsk_a"), WithAPIKey("")>>,
                   <<WithAPIKey(""), WithAPIKey("tsk_a")>>, <<WithEnabled(FALSE)>>}

(* C15: resolveConfig returns an error and no config exactly when the    *)
(* key resolved from defaults, environment and options is empty; an Init *)
(* that meets this error returns it with the inert func and leaves the   *)
(* SDK as it was, uninitialized, with no provider, no active             *)
(* configuration and no pipeline built; and no pipeline and no active    *)
(* configuration ever has an empty key.                                   *)
C15_MissingKey ==
    /\ [](\A e \in Envs, opts \in KeyOpts :
            IF ResolvedKey(e, opts) = ""
            THEN /\ resolveConfig(e, opts).cfg = NilConfig
                 /\ resolveConfig(e, opts).err = "triage: API key is required"
            ELSE /\ resolveConfig(e, opts).err = NilErr
                 /\ resolveConfig(e, opts).cfg.apiKey = ResolvedKey(e, opts))
    /\ [](/\ \A p \in DOMAIN pipelines : pipelines[p].cfg.apiKey # ""
          /\ activeConfig # NilConfig => activeConfig.apiKey # "")
    /\ [][\A g \in Goroutines :
             (pc[g] = "Init:locked" /\ pc'[g] = "idle"
                  /\ ret'[g].path = "config-error")
                => /\ ret'[g] = Returned("config-error", "noop",
                                         "triage: API key is required", 0)
                   /\ mu' = 0
                   /\ ~initialized'
                   /\ provider' = 0
                   /\ activeConfig' = NilConfig
                   /\ UNCHANGED lifeState]_vars

(* One goroutine's Init failed for want of a key and its inert func was  *)
(* called; the other's Init, made later with a key, installed the only   *)
(* pipeline, which runs.                                                  *)
C15_Witness ==
    \E g, h \in Goroutines :
        /\ ret[g].path = "config-error"
        /\ ret[g].err = "triage: API key is required"
        /\ ret[g].handle = "noop"
        /\ ret[g].called
        /\ ret[h].path = "install"
        /\ ret[h].created = 1
        /\ Len(pipelines) = 1
        /\ initialized
        /\ activeConfig.apiKey = "tsk_a"

-----------------------------------------------------------------------------
(* C16: mu is not held while a pipeline is being flushed and shut down:  *)
(* whenever a goroutine is inside provider.Shutdown, mu is free, so a    *)
(* concurrent Init, Shutdown, LogPrompt or LogCompletion can take it.    *)
C16_NoLockAcrossFlush ==
    \A g \in Goroutines : pc[g] = "Shutdown:flushing" => TryLock(mu)

-----------------------------------------------------------------------------
(* C17: no call of LogPrompt, LogCompletion, SetError or End has         *)
(* panicked, whatever the arguments (the nil error included) and whether *)
(* the SDK was never initialized, is initialized or was shut down.       *)
C17_NeverPanics == ~panicked

-----------------------------------------------------------------------------
(* LogPrompt and LogCompletion of llm.go around every outcome of Init    *)
(* (no key, disabled, installed with content tracing on or off) and      *)
(* around Shutdown, with globalCfg nil or set.                            *)
PolicyOpts ==
    {<<>>, <<WithAPIKey("tsk_a")>>, <<WithAPIKey("tsk_a"), WithEnabled(FALSE)>>,
     <<WithAPIKey("tsk_a"), WithTraceContent(FALSE)>>}

FullCompletion == CHOOSE params \in CompletionInputs : params.model = "gpt-4o"

NextPolicy ==
    \/ ~initialized /\ InitLock(1)
    \/ \E opts \in PolicyOpts : InitCheck(1, NoEnv, opts, "ok")
    \/ InitInstall(1)
    \/ initialized /\ ShutdownLock(1)
    \/ ShutdownCheck(1)
    \/ ShutdownFlush(1, NilErr)
    \/ \E cfg \in {NilConfig, ConfigLiteral(FALSE)} : StoreGlobalCfg(cfg)
    \/ LogPrompt(Background, FullPrompt)
    \/ LogPromptContent
    \/ LogPromptReturn
    \/ \E l \in DOMAIN llms : LogCompletion(l, FullCompletion)
    \/ LogCompletionContent
    \/ LogCompletionEnd

SpecPolicy == Init /\ [][NextPolicy]_vars

(* C18: the content policy (shouldTraceContent, and isTraceContentEnabled *)
(* of part_001) is on whenever there is no active configuration, which   *)
(* is the case whenever the SDK is not initialized (Init never called,   *)
(* failed, skipped as disabled, or undone by Shutdown); otherwise it is  *)
(* the traceContent of the configuration the successful Init installed.  *)
(* Every LLMSpan of llm.go with a real span carries its prompt messages  *)
(* exactly when the policy was on as its LogPrompt read it, and no call  *)
(* panicked.                                                              *)
C18_ContentPolicy ==
    /\ ~initialized => activeConfig = NilConfig /\ Active = {}
    /\ initialized => Active = {provider}
    /\ shouldTraceContent(activeConfig) =
           (IF Active = {} THEN TRUE
            ELSE \A p \in Active : pipelines[p].cfg.traceContent)
    /\ isTraceContentEnabled(globalCfg) =
           (IF globalCfg = NilConfig THEN TRUE ELSE globalCfg.traceContent)
    /\ \A l \in Recorded("llm.go") :
           (Keys(l) \cap MessageKeys("gen_ai.prompt") # {})
               <=> shouldTraceContent(llms[l].cfg)
    /\ ~panicked

(* An Init that was skipped as disabled, then LogPrompt and LogCompletion *)
(* without a configuration; the calls returned and nothing panicked.     *)
C18_Witness ==
    /\ ret[1].path = "disabled"
    /\ ~initialized
    /\ pipelines = <<>>
    /\ shouldTraceContent(activeConfig)
    /\ \E l \in DOMAIN llms :
           /\ llms[l].file = "llm.go"
           /\ llms[l].cfg = NilConfig
           /\ llms[l].closed
           /\ llms[l].completion # NoCompletion
    /\ ~panicked

(* A usage attribute is on the span of LLMSpan l exactly when its        *)
(* counter is above zero, and then with the counter's value.             *)
CounterRecorded(l, key, n) ==
    IF n > 0 THEN Carries(l, IntKV(key, n)) ELSE key \notin Keys(l)

(* The usage counters of the completion LLMSpan l was given, each with   *)
(* the attribute keys its file records it under.                         *)
UsageCounters(l) ==
    LET c == llms[l].completion
    IN  IF llms[l].file = "llm.go"
        THEN {<<"gen_ai.usage.input_tokens", c.usage.inputTokens>>,
              <<"gen_ai.usage.output_tokens", c.usage.outputTokens>>,
              <<"gen_ai.usage.total_tokens", c.usage.totalTokens>>,
              <<"gen_ai.usage.reasoning_tokens", c.usage.reasoningTokens>>,
              <<"gen_ai.usage.cache_read_tokens", c.usage.cacheReadTokens>>,
              <<"gen_ai.usage.cache_write_tokens", c.usage.cacheWriteTokens>>}
        ELSE {<<"gen_ai.usage.input_tokens", c.usage.promptTokens>>,
              <<"gen_ai.usage.output_tokens", c.usage.completionTokens>>,
              <<"llm.usage.prompt_tokens", c.usage.promptTokens>>,
              <<"llm.usage.completion_tokens", c.usage.completionTokens>>,
              <<"llm.usage.total_tokens", c.usage.totalTokens>>}

(* C19: LogCompletion records a usage counter on the span if and only if *)
(* its value is strictly greater than zero, so a count of zero leaves    *)
(* the same span as a count that was never reported: every span          *)
(* LogCompletion of either file completed carries each usage attribute   *)
(* exactly when the counter it was given is above zero.                  *)
C19_UsageOnlyPositive ==
    \A l \in Recorded("llm.go") \cup Recorded("part_001") :
        llms[l].completion # NoCompletion =>
            \A kn \in UsageCounters(l) : CounterRecorded(l, kn[1], kn[2])

(* The half of C19 that holds: LogCompletion of llm.go, every counter    *)
(* under its own test.                                                   *)
UsageOnlyPositive_llm ==
    \A l \in Recorded("llm.go") :
        llms[l].completion # NoCompletion =>
            \A kn \in UsageCounters(l) : CounterRecorded(l, kn[1], kn[2])

-----------------------------------------------------------------------------
(* Nesting: every wrapper started from the background context or from    *)
(* the context the call before returned, before or after one Init        *)
(* installs the pipeline; one span more than MaxSpans, so that a wrapper *)
(* is followed by a span from its context and one from the context it    *)
(* was given.                                                            *)
StartContexts == {Background, Latest}

NextNest ==
    \/ spans = <<>> /\ pipelines = <<>> /\ InitLock(1)
    \/ InitCheck(1, NoEnv, <<WithAPIKey("tsk_a")>>, "ok")
    \/ InitInstall(1)
    \/ \E c \in StartContexts : Idle /\ LogPrompt(c, FullPrompt)
    \/ LogPromptContent
    \/ LogPromptReturn
    \/ \E c \in StartContexts : Idle /\ LogPrompt2(c, FullPrompt2)
    \/ \E c \in StartContexts : Idle /\ Len(spans) <= MaxSpans /\ StartWorkflow(c, "wf")
    \/ \E c \in StartContexts : Idle /\ Len(spans) <= MaxSpans /\ StartTask(c, "task")
    \/ \E c \in StartContexts : Idle /\ Len(spans) <= MaxSpans /\ StartAgent(c, "agent")
    \/ \E c \in StartContexts : Idle /\ Len(spans) <= MaxSpans /\ StartTool(c, "tool")

SpecNest == Init /\ [][NextNest]_vars

(* The wrappers handed out so far, each as the span it wraps and the     *)
(* context that was returned with it; those whose span is a real one.    *)
Wrappers ==
    {[span |-> llms[l].span, ctx |-> llms[l].ctx] : l \in DOMAIN llms}
        \cup {[span |-> hier[h].span, ctx |-> hier[h].ctx] : h \in DOMAIN hier}
RealWrappers == {w \in Wrappers : w.span # 0 /\ spans[w.span].recording}

(* C20: any span started from the context returned by LogPrompt,         *)
(* StartWorkflow, StartTask, StartAgent or StartTool has that wrapper's  *)
(* span as its parent, while a span started afterwards from the context  *)
(* the wrapper was given is not a child of it.                           *)
C20_NestsUnderReturned ==
    \A w \in RealWrappers : \A sid \in DOMAIN spans :
        /\ spans[sid].startCtx = w.ctx => spans[sid].parent = w.span
        /\ (sid # w.span /\ spans[sid].startCtx = spans[w.span].startCtx)
               => spans[sid].parent # w.span

(* A wrapper of each kind is reached with a span started from the        *)
(* context it returned and a later one from the context it was given.    *)
Nested(w) ==
    /\ \E sid \in DOMAIN spans :
           spans[sid].startCtx = w.ctx /\ spans[sid].parent = w.span
    /\ \E sid \in DOMAIN spans :
           /\ sid > w.span
           /\ spans[sid].startCtx = spans[w.span].startCtx
           /\ spans[sid].parent # w.span

C20_Witness ==
    \E w \in RealWrappers : Nested(w) /\ spans[w.span].name = "openai.chat"

-----------------------------------------------------------------------------
(* The hierarchy wrappers and their End and Context: wrappers of every  *)
(* kind started along one chain of contexts, before or after one Init,  *)
(* nil wrappers of every kind, and End and Context called on any of     *)
(* them in any order.                                                    *)
HierKinds == {spanKindWorkflow, spanKindTask, spanKindAgent, spanKindTool}
MoreHier == Idle /\ Len(hier) < MaxSpans

NextHier ==
    \/ spans = <<>> /\ pipelines = <<>> /\ InitLock(1)
    \/ InitCheck(1, NoEnv, <<WithAPIKey("tsk_a")>>, "ok")
    \/ InitInstall(1)
    \/ MoreHier /\ StartWorkflow(Latest, "wf")
    \/ MoreHier /\ StartTask(Latest, "task")
    \/ MoreHier /\ StartAgent(Latest, "agent")
    \/ MoreHier /\ StartTool(Latest, "tool")
    \/ \E kind \in HierKinds : MoreHier /\ NilHier(kind)
    \/ \E h \in DOMAIN hier : HierEnd(h)
    \/ \E h \in DOMAIN hier : HierContext(h)

SpecHier == Init /\ [][NextHier]_vars

(* The wrappers that StartWorkflow, StartTask, StartAgent and StartTool *)
(* returned for a real span.                                             *)
Opened == {h \in DOMAIN hier : ~hier[h].nil /\ spans[hier[h].span].recording}

(* C21: End on a Workflow, Task, Agent or ToolSpan is idempotent and     *)
(* nil-safe.  Nothing panics; Context on a nil instance returns a        *)
(* context that is not nil; a span is ended only by End on the wrapper   *)
(* that holds it, so End on a nil instance does nothing; the span of an  *)
(* opened instance is ended from the first End on, is handed to the      *)
(* exporter once and never twice, and no End after the first changes it. *)
C21_EndIdempotent ==
    /\ [](/\ ~panicked
          /\ \A h \in DOMAIN hier :
                (hier[h].nil /\ hier[h].returned.called)
                    => hier[h].returned.ctx \in DOMAIN ctxs
          /\ \A sid \in DOMAIN spans :
                spans[sid].ended =>
                    \E h \in DOMAIN hier :
                        ~hier[h].nil /\ hier[h].span = sid /\ hier[h].ends >= 1
          /\ \A h \in Opened :
                LET span == spans[hier[h].span]
                IN  /\ span.ended <=> hier[h].ends >= 1
                    /\ span.exported <= 1
                    /\ ~span.ended => span.exported = 0
                    /\ (span.ended /\ Live(pipelines, span.pipeline))
                           => span.exported = 1)
    /\ [][\A sid \in DOMAIN spans : spans[sid].ended => spans'[sid] = spans[sid]]_vars

C21_Witness ==
    /\ \E h \in DOMAIN hier :
           /\ hier[h].nil
           /\ hier[h].ends = 2
           /\ hier[h].returned.called
    /\ \E h \in Opened :
           /\ hier[h].ends = 2
           /\ spans[hier[h].span].ended
           /\ spans[hier[h].span].exported = 1
    /\ ~panicked

-----------------------------------------------------------------------------
(* Init under every layering of environment and options: one goroutine  *)
(* calls Init until a pipeline is installed, calls it again while that   *)
(* pipeline runs, and shuts it down.                                     *)
SetEnv ==
    [TRIAGE_API_KEY |-> "tsk_env", TRIAGE_ENDPOINT |-> "https://env.example",
     TRIAGE_APP_NAME |-> "envapp", TRIAGE_ENVIRONMENT |-> "staging",
     TRIAGE_ENABLED |-> "Yes", TRIAGE_TRACE_CONTENT |-> "FALSE",
     args0 |-> "./agent"]

ConfigEnvs ==
    {NoEnv, SetEnv,
     [NoEnv EXCEPT !.args0 = ""],
     [NoEnv EXCEPT !.TRIAGE_API_KEY = "tsk_env"],
     [SetEnv EXCEPT !.TRIAGE_ENABLED = "0", !.TRIAGE_TRACE_CONTENT = "1"],
     [SetEnv EXCEPT !.TRIAGE_ENABLED = "maybe", !.TRIAGE_TRACE_CONTENT = "TRUE"]}

ConfigOptions ==
    {WithAPIKey("tsk_a"), WithAPIKey(""), WithEndpoint("https://opt.example"),
     WithAppName("optapp"), WithEnvironment("production"), WithEnabled(FALSE),
     WithEnabled(TRUE), WithTraceContent(FALSE), WithTraceContent(TRUE)}

ConfigOpts ==
    {<<>>}
        \cup {<<o>> : o \in ConfigOptions}
        \cup {<<WithAPIKey("tsk_a"), o>> : o \in ConfigOptions}
        \cup {<<WithEnabled(FALSE), WithAPIKey("tsk_a"), WithEnabled(TRUE)>>,
              <<WithAPIKey("tsk_a"), WithEndpoint("https://opt.example"),
                WithAppName("optapp"), WithEnvironment("production"),
                WithEnabled(TRUE), WithTraceContent(TRUE)>>}

NextConfig ==
    \/ (pipelines = <<>> \/ initialized) /\ InitLock(1)
    \/ \E e \in ConfigEnvs, opts \in ConfigOpts : InitCheck(1, e, opts, "ok")
    \/ InitInstall(1)
    \/ initialized /\ ShutdownLock(1)
    \/ ShutdownCheck(1)
    \/ ShutdownFlush(1, NilErr)

SpecConfig == Init /\ [][NextConfig]_vars

(* The three layers, field by field.  Passed is the position of the last *)
(* option for a field (0: none was passed); a flag variable that is set  *)
(* reads as true when it is true, 1 or yes in any case, else as false.   *)
Passed(opts, name) ==
    LET at == {i \in DOMAIN opts : opts[i].opt = name}
    IN  IF at = {} THEN 0 ELSE CHOOSE i \in at : \A j \in at : j <= i

LayeredString(e, opts, name, key, default) ==
    IF Passed(opts, name) # 0 THEN opts[Passed(opts, name)].s
    ELSE IF e[key] # "" THEN e[key]
    ELSE default

LayeredFlag(e, opts, name, key, default) ==
    IF Passed(opts, name) # 0 THEN opts[Passed(opts, name)].b
    ELSE IF e[key] # "" THEN ToLower(e[key]) \in {"true", "1", "yes"}
    ELSE default

Layered(e, opts) ==
    [apiKey |-> LayeredString(e, opts, "WithAPIKey", EnvAPIKey, ""),
     endpoint |-> LayeredString(e, opts, "WithEndpoint", EnvEndpoint, DefaultEndpoint),
     appName |-> LayeredString(e, opts, "WithAppName", EnvAppName, defaultAppName(e)),
     environment |->
         LayeredString(e, opts, "WithEnvironment", EnvEnvironment, "development"),
     enabled |-> LayeredFlag(e, opts, "WithEnabled", EnvEnabled, TRUE),
     traceContent |-> LayeredFlag(e, opts, "WithTraceContent", EnvTraceContent, TRUE)]

(* C22: each of the six configuration fields resolves to the value of    *)
(* the explicit option for it when one was passed, else to the           *)
(* environment variable when it is set and not empty, else to the        *)
(* built-in default: that is the configuration resolveConfig returns     *)
(* whenever it returns one, the one an Init that goes on to install      *)
(* holds, and the one the installed pipeline and the SDK then keep.      *)
C22_Layers ==
    /\ [][\A e \in ConfigEnvs, opts \in ConfigOpts :
            InitCheck(1, e, opts, "ok") =>
                /\ Layered(e, opts).apiKey # ""
                       => resolveConfig(e, opts).cfg = Layered(e, opts)
                /\ pc'[1] = "Init:install" => local'[1].cfg = Layered(e, opts)]_vars
    /\ [][InitInstall(1) =>
            /\ activeConfig' = local[1].cfg
            /\ pipelines'[Len(pipelines')].cfg = local[1].cfg]_vars

(* A pipeline installed with the key, the application name, the          *)
(* environment name and both flags from the variables and the endpoint   *)
(* from the option.                                                      *)
C22_Witness ==
    /\ initialized
    /\ activeConfig =
           [apiKey |-> "tsk_env", endpoint |-> "https://opt.example",
            appName |-> "envapp", environment |-> "staging", enabled |-> TRUE,
            traceContent |-> FALSE]
    /\ pipelines[provider].cfg = activeConfig

-----------------------------------------------------------------------------
(* An Init call whose configuration resolves to enabled = false. *)
DisabledInit(e, opts) == InitCheck(1, e, opts, "ok") /\ ~Layered(e, opts).enabled

(* Init returned the inert func and left the SDK and its pipelines as    *)
(* they were.                                                            *)
InertReturn ==
    /\ pc'[1] = "idle"
    /\ mu' = 0
    /\ ret'[1].handle = "noop"
    /\ ret'[1].created = 0
    /\ pipelines' = pipelines
    /\ globalTP' = globalTP
    /\ initialized' = initialized
    /\ provider' = provider
    /\ activeConfig' = activeConfig

(* C23 as stated: Init with enabled resolved to false returns a nil      *)
(* error and an inert shutdown handle, creates no pipeline and leaves    *)
(* initialized false, no provider and no active configuration, whatever  *)
(* the other options and the environment are.                            *)
C23_Original ==
    [][\A e \in ConfigEnvs, opts \in ConfigOpts :
          DisabledInit(e, opts) =>
              /\ InertReturn
              /\ ret'[1].err = NilErr
              /\ ~initialized'
              /\ provider' = 0
              /\ activeConfig' = NilConfig]_vars

(* C23, amended: Init with enabled resolved to false returns the inert   *)
(* handle, creates no pipeline and leaves the SDK as it was.  Called     *)
(* while the SDK is not initialized it leaves initialized false, no      *)
(* provider and no active configuration, and returns a nil error when    *)
(* the resolved API key is not empty and the configuration error when it *)
(* is; called while the SDK is initialized it returns a nil error and    *)
(* the SDK stays initialized.                                            *)
C23_DisabledInit ==
    [][\A e \in ConfigEnvs, opts \in ConfigOpts :
          DisabledInit(e, opts) =>
              /\ InertReturn
              /\ ret'[1].err = IF ~initialized /\ Layered(e, opts).apiKey = ""
                               THEN "triage: API key is required"
                               ELSE NilErr
              /\ ~initialized =>
                     /\ ~initialized'
                     /\ provider' = 0
                     /\ activeConfig' = NilConfig
                     /\ pipelines' = <<>>]_vars

(* Init has returned on its disabled path: nil error, inert handle,      *)
(* nothing created, the SDK not initialized.                             *)
C23_Witness ==
    /\ ret[1].path = "disabled"
    /\ ret[1].err = NilErr
    /\ ret[1].handle = "noop"
    /\ ret[1].created = 0
    /\ pc[1] = "idle"
    /\ ~initialized
    /\ provider = 0
    /\ activeConfig = NilConfig
    /\ pipelines = <<>>

-----------------------------------------------------------------------------
(* A WithChunkACLs call whose json.Marshal fails; the context it returns *)
(* is the one setInContext appended.                                     *)
FailedACLs(c, acls) == WithChunkACLs(c, acls) /\ jsonMarshal(acls).err
NotChunkACLs(kv) == kv.key # AttrChunkACLs

(* The call left the other eleven fields as the context it was given has *)
(* them, and nothing panicked.                                           *)
OthersKept(c) ==
    /\ ~panicked'
    /\ SelectSeq(getTriageAttrs(ctxs', heap', Len(ctxs')), NotChunkACLs)
           = SelectSeq(getTriageAttrs(ctxs, heap, c), NotChunkACLs)

(* C24: when serialization of the value passed to WithChunkACLs fails,   *)
(* the call does not panic and reports no error, and the context it      *)
(* returns has the other eleven fields unchanged and a projection with   *)
(* no triage.chunk_acls attribute.                                       *)
C24_FailureOmitsACLs ==
    [][\A c \in DOMAIN ctxs, acls \in ACLInputs :
          FailedACLs(c, acls) =>
              /\ OthersKept(c)
              /\ ~HasKey(getTriageAttrs(ctxs', heap', Len(ctxs')), AttrChunkACLs)]_vars

(* The part of C24 that holds: no panic, the other eleven fields kept,   *)
(* and no triage.chunk_acls attribute unless the context that was passed *)
(* in had one, which is then carried over as it was.                     *)
FailureKeepsContext ==
    [][\A c \in DOMAIN ctxs, acls \in ACLInputs :
          FailedACLs(c, acls) =>
              /\ OthersKept(c)
              /\ getTriageAttrs(ctxs', heap', Len(ctxs')) = getTriageAttrs(ctxs, heap, c)]_vars

-----------------------------------------------------------------------------
(* LogPrompt and LogCompletion of both files for requests with and       *)
(* without a vendor and a model, under every setting of the content      *)
(* switch.                                                               *)
Vendors == {"", "openai"}
Models == {"", "gpt-4o"}
RequestInputs ==
    {[FullPrompt EXCEPT !.vendor = v, !.model = m] : v \in Vendors, m \in Models}
Request2Inputs ==
    {[FullPrompt2 EXCEPT !.vendor = v, !.model = m] : v \in Vendors, m \in Models}

NextRequest ==
    \/ pipelines = <<>> /\ InitLock(1)
    \/ \E opts \in LLMInitOpts : InitCheck(1, NoEnv, opts, "ok")
    \/ InitInstall(1)
    \/ \E cfg \in {NilConfig, ConfigLiteral(FALSE)} : StoreGlobalCfg(cfg)
    \/ \E params \in RequestInputs : LogPrompt(Background, params)
    \/ LogPromptContent
    \/ LogPromptReturn
    \/ \E l \in DOMAIN llms, params \in CompletionInputs : LogCompletion(l, params)
    \/ LogCompletionContent
    \/ LogCompletionEnd
    \/ \E prompt \in Request2Inputs : LogPrompt2(Background, prompt)
    \/ \E l \in DOMAIN llms, cu \in Completion2Inputs : LogCompletion2(l, cu[1], cu[2])

SpecRequest == Init /\ [][NextRequest]_vars

(* The span name of a request, as stated and as each file forms it. *)
NameAsStated(r) ==
    IF r.vendor = "" THEN "llm.chat"
    ELSE IF r.model = "" THEN r.vendor \o ".chat"
    ELSE r.vendor \o ".chat " \o r.model

NameByFile(file, r) ==
    IF file = "llm.go"
    THEN IF r.vendor = "" THEN "llm.chat" ELSE r.vendor \o ".chat"
    ELSE IF r.model = "" THEN r.vendor \o ".chat"
         ELSE r.vendor \o ".chat " \o r.model

(* C25: LogPrompt names the span "<vendor>.chat <model>" when vendor    *)
(* and model are both non-empty, "<vendor>.chat" when the model is       *)
(* empty, and the generic fallback name when the vendor is empty.        *)
C25_SpanName ==
    \A l \in DOMAIN llms : SpanOf(l).name = NameAsStated(llms[l].params)

(* What the two files do: part_001 appends the model when it is not      *)
(* empty and takes the vendor as given even when it is empty; llm.go     *)
(* never uses the model and falls back to "llm.chat" without a vendor.   *)
SpanNameByFile ==
    \A l \in DOMAIN llms :
        SpanOf(l).name = NameByFile(llms[l].file, llms[l].params)

-----------------------------------------------------------------------------
(* A string or a count that was given (not empty, above zero) is on the  *)
(* span of LLMSpan l under every one of the keys.                        *)
StringUnder(l, keys, v) == v # "" => \A k \in keys : Carries(l, StringKV(k, v))
CountUnder(l, keys, n) == n > 0 => \A k \in keys : Carries(l, IntKV(k, n))

(* The model and the token counts of the completion LLMSpan l was given, *)
(* in the shape of either file.                                          *)
ResponseModel(l) ==
    IF llms[l].file = "llm.go" THEN llms[l].completion.model
    ELSE llms[l].completion.completion.model
PromptTokens(l) ==
    IF llms[l].file = "llm.go" THEN llms[l].completion.usage.inputTokens
    ELSE llms[l].completion.usage.promptTokens
CompletionTokens(l) ==
    IF llms[l].file = "llm.go" THEN llms[l].completion.usage.outputTokens
    ELSE llms[l].completion.usage.completionTokens

(* Vendor, request model, response model and token counts of LLMSpan l   *)
(* under the gen_ai keys and under the llm keys.                         *)
BothSchemas(l) ==
    /\ StringUnder(l, {"gen_ai.system", "llm.vendor"}, llms[l].params.vendor)
    /\ StringUnder(l, {"gen_ai.request.model", "llm.request.model"},
                   llms[l].params.model)
    /\ Carries(l, StringKV("llm.request.type", "chat"))
    /\ llms[l].completion # NoCompletion =>
           /\ StringUnder(l, {"gen_ai.response.model", "llm.response.model"},
                          ResponseModel(l))
           /\ CountUnder(l, {"gen_ai.usage.input_tokens", "llm.usage.prompt_tokens"},
                         PromptTokens(l))
           /\ CountUnder(l, {"gen_ai.usage.output_tokens",
                             "llm.usage.completion_tokens"},
                         CompletionTokens(l))
           /\ CountUnder(l, {"llm.usage.total_tokens"},
                         llms[l].completion.usage.totalTokens)

(* C26: LogPrompt records the vendor and the request model under the     *)
(* primary schema (gen_ai.system, gen_ai.request.model) and under the    *)
(* compatibility schema (llm.vendor, llm.request.model,                  *)
(* llm.request.type), and LogCompletion the response model and the token *)
(* usage under both, whatever the content switch is: every recorded LLM  *)
(* span of either file carries each given value under both schemas.      *)
C26_BothSchemas ==
    \A l \in Recorded("llm.go") \cup Recorded("part_001") : BothSchemas(l)

(* The half of C26 that holds: the spans of part_001. *)
BothSchemas_part_001 == \A l \in Recorded("part_001") : BothSchemas(l)

-----------------------------------------------------------------------------
(* C27: in every state reached through Init and Shutdown calls,          *)
(* initialized is true exactly when a provider is held and exactly when  *)
(* an active configuration is held; a Shutdown that reaches              *)
(* provider.Shutdown clears all three whatever that call returns, and    *)
(* its error is what Shutdown returns to its caller.                     *)
C27_StateTogether ==
    /\ [](/\ initialized <=> provider # 0
          /\ initialized <=> activeConfig # NilConfig)
    /\ [][\A g \in Goroutines, e \in FlushErrs :
            ShutdownFlush(g, e) =>
                /\ initialized /\ provider # 0 /\ activeConfig # NilConfig
                /\ ~initialized' /\ provider' = 0 /\ activeConfig' = NilConfig
                /\ ~local[g].closure => ret'[g].shutdownErr = e]_vars

(* A direct Shutdown got the deadline error back from an initialized SDK *)
(* and left nothing held.                                                *)
C27_Witness ==
    \E g \in Goroutines :
        /\ ret[g].spath = "flushed"
        /\ ret[g].shutdownErr = "context deadline exceeded"
        /\ pc[g] = "idle"
        /\ ~initialized
        /\ provider = 0
        /\ activeConfig = NilConfig
        /\ pipelines # <<>>

-----------------------------------------------------------------------------
(* C28: the shutdown func a successful Init returned releases only the   *)
(* pipeline that Init created: when a goroutine's call of that func      *)
(* comes back from provider.Shutdown, no pipeline other than the one its *)
(* Init created has changed, so a pipeline installed by a later Init     *)
(* keeps running.                                                        *)
C28_HandleOwnPipeline ==
    [][\A g \in Goroutines :
          (pc[g] = "Shutdown:flushing" /\ pc'[g] = "idle" /\ local[g].closure)
              => \A p \in DOMAIN pipelines :
                     pipelines'[p] # pipelines[p] => p = ret[g].created]_vars

(* What the func does instead: it shuts down the pipeline the SDK holds  *)
(* when it is called, whichever Init created it.                         *)
HandleCurrentPipeline ==
    [][\A g \in Goroutines :
          (pc[g] = "Shutdown:flushing" /\ pc'[g] = "idle" /\ local[g].closure)
              => \A p \in DOMAIN pipelines :
                     pipelines'[p] # pipelines[p] => p = provider]_vars

-----------------------------------------------------------------------------
(* The LLM calls of llm.go that LogCompletion completed, and whether the *)
(* span of one carries prompt messages and completion messages.          *)
Completed == {l \in DOMAIN llms : llms[l].file = "llm.go"
                                  /\ llms[l].completion # NoCompletion}
PromptShown(l) == Keys(l) \cap MessageKeys("gen_ai.prompt") # {}
CompletionShown(l) == Keys(l) \cap MessageKeys("gen_ai.completion") # {}

(* C29: for any one LLM call the content decision LogCompletion applies  *)
(* is the one the LogPrompt that opened the span applied, however Init   *)
(* and Shutdown calls fall between them: no span carries prompt messages *)
(* while its completion messages were withheld, or completion messages   *)
(* while its prompt messages were withheld.                              *)
C29_SameDecision ==
    \A l \in Completed :
        /\ shouldTraceContent(llms[l].cfg) = shouldTraceContent(llms[l].completionCfg)
        /\ SpanOf(l).recording => (PromptShown(l) <=> CompletionShown(l))

(* What holds instead: the two decisions agree on every span that was    *)
(* handed to the exporter of the pipeline Init installed, since the      *)
(* active configuration changes only when that pipeline is shut down.    *)
SameDecisionWhenExported ==
    \A l \in Completed :
        SpanOf(l).exported = 1 =>
            /\ shouldTraceContent(llms[l].cfg) = shouldTraceContent(llms[l].completionCfg)
            /\ PromptShown(l) <=> CompletionShown(l)

-----------------------------------------------------------------------------
(* The annotation helpers called on contexts that carry a recording      *)
(* span: after one Init, spans are started and helpers are called along  *)
(* one chain of contexts, each on the context the call before returned.  *)
AnnotatedSessionOpts == {<<>>, <<TurnNumber(0)>>, <<HistoryHash(""), TurnNumber(1)>>}

NextAnnotate ==
    \/ spans = <<>> /\ Len(ctxs) = 1 /\ InitLock(1)
    \/ InitCheck(1, NoEnv, <<WithAPIKey("tsk_a")>>, "ok")
    \/ InitInstall(1)
    \/ initialized /\ OtherStart(Latest, "http")
    \/ \E id \in Ids, opts \in UserOpts : initialized /\ WithUser(Latest, id, opts)
    \/ \E id \in Ids, opts \in TenantOpts : initialized /\ WithTenant(Latest, id, opts)
    \/ \E id \in Ids, opts \in AnnotatedSessionOpts :
          initialized /\ WithSession(Latest, id, opts)
    \/ \E raw \in Ids, opts \in InputOpts : initialized /\ WithInput(Latest, raw, opts)
    \/ \E id \in Ids, opts \in TemplateOpts : initialized /\ WithTemplate(Latest, id, opts)
    \/ \E acls \in ACLInputs : initialized /\ WithChunkACLs(Latest, acls)

SpecAnnotate == Init /\ [][NextAnnotate]_vars

(* After a helper call on context c: the attributes of the span of c     *)
(* under keys next to the projection of the context the call returned.   *)
Returned_Projection == getTriageAttrs(ctxs', heap', Len(ctxs'))
CurrentAttrs(c) == spans'[SpanFromContext(ctxs, c)].attrs

ProjectionOnSpan(c, keys) ==
    \A k \in keys :
        HasKey(Returned_Projection, k)
            => k \in DOMAIN CurrentAttrs(c) /\ Has(Returned_Projection, CurrentAttrs(c)[k])
SpanInProjection(c, keys) ==
    \A k \in keys \cap DOMAIN CurrentAttrs(c) :
        /\ Has(Returned_Projection, CurrentAttrs(c)[k])
        /\ CurrentAttrs(c)[k] # StringKV(k, "")
OthersUntouched(c) ==
    \A sid \in DOMAIN spans \ {SpanFromContext(ctxs, c)} : spans'[sid] = spans[sid]

(* What C30 says of one helper call on a context whose span records. *)
Agrees(c, keys) ==
    IsRecording(spans, SpanFromContext(ctxs, c)) =>
        /\ ProjectionOnSpan(c, keys)
        /\ SpanInProjection(c, keys)
        /\ OthersUntouched(c)

(* The part of it that holds: what the returned context projects for the *)
(* helper's fields is on the span, and no other span is touched.         *)
Reaches(c, keys) ==
    IsRecording(spans, SpanFromContext(ctxs, c)) =>
        /\ ProjectionOnSpan(c, keys)
        /\ OthersUntouched(c)

(* C30: when an annotation helper is called with a context whose current *)
(* span is still recording, then after the call that span's triage.*     *)
(* attributes for the helper's own fields agree with the projection of   *)
(* the returned context (the same keys with the same values, none with   *)
(* an empty value), and no other span is modified.                       *)
C30_SpanAgrees ==
    [][/\ \A id \in Ids, opts \in UserOpts :
             WithUser(Latest, id, opts) => Agrees(Latest, {AttrUserID, AttrUserRole})
       /\ \A id \in Ids, opts \in TenantOpts :
             WithTenant(Latest, id, opts)
                 => Agrees(Latest, {AttrTenantID, AttrTenantName})
       /\ \A id \in Ids, opts \in AnnotatedSessionOpts :
             WithSession(Latest, id, opts)
                 => Agrees(Latest, {AttrSessionID, AttrSessionTurn, AttrSessionHash})
       /\ \A raw \in Ids, opts \in InputOpts :
             WithInput(Latest, raw, opts)
                 => Agrees(Latest, {AttrInputRaw, AttrInputSanitized})
       /\ \A id \in Ids, opts \in TemplateOpts :
             WithTemplate(Latest, id, opts)
                 => Agrees(Latest, {AttrTemplateID, AttrTemplateVersion})
       /\ \A acls \in ACLInputs :
             WithChunkACLs(Latest, acls) => Agrees(Latest, {AttrChunkACLs})]_vars

AnnotationReachesSpan ==
    [][/\ \A id \in Ids, opts \in UserOpts :
             WithUser(Latest, id, opts) => Reaches(Latest, {AttrUserID, AttrUserRole})
       /\ \A id \in Ids, opts \in TenantOpts :
             WithTenant(Latest, id, opts)
                 => Reaches(Latest, {AttrTenantID, AttrTenantName})
       /\ \A id \in Ids, opts \in AnnotatedSessionOpts :
             WithSession(Latest, id, opts)
                 => Reaches(Latest, {AttrSessionID, AttrSessionTurn, AttrSessionHash})
       /\ \A raw \in Ids, opts \in InputOpts :
             WithInput(Latest, raw, opts)
                 => Reaches(Latest, {AttrInputRaw, AttrInputSanitized})
       /\ \A id \in Ids, opts \in TemplateOpts :
             WithTemplate(Latest, id, opts)
                 => Reaches(Latest, {AttrTemplateID, AttrTemplateVersion})
       /\ \A acls \in ACLInputs :
             WithChunkACLs(Latest, acls) => Reaches(Latest, {AttrChunkACLs})]_vars


====
